---- MODULE Spec2Model ----
(***************************************************************************)
(* Kindle highlights exporter: the popup's workflow orchestrator           *)
(* (handlePerformActions), the controller side of the message bridge       *)
(* (exportToNotebooklm, createFlashcards, sendToGeminiChat,                *)
(* waitForTabReady), the content-script message listener and the page      *)
(* action scripts (handleNotebooklmExport, handleCreateFlashcards,         *)
(* handleSendToGeminiChat).                                                *)
(***************************************************************************)
EXTENDS Integers, Sequences, FiniteSets, TLC

VARIABLES
    \* ---- popup (controller) ----
    checked,        \* the action checkboxes that are ticked
    pc,             \* position of handlePerformActions
    btnDisabled,    \* performActionsBtn.disabled
    runs,           \* runs of handlePerformActions that passed the preconditions
    runSel,         \* the checkboxes ticked when the current run was triggered
    toggles,        \* checkbox changes made while a run was in progress
    result,         \* per action of the current run: none | ok | failed
    errShown,       \* actions for which an error status was shown in this run
    status,         \* step2Status: the status line the user sees
    completedList,  \* actions named by the final "Completed: ..." status
    aborted,        \* the run ended in the outer catch
    stored,         \* processedContent in storage: 0 none, n = written by run n
    notionReqs,     \* Notion API requests made in this run
    activeTab,      \* which page the active browser tab shows
    \* ---- bridge ----
    cur,            \* the action whose controller function is executing
    tab,            \* target tab: none | loading | complete | closed
    attempts,       \* waitForTabReady's attempts counter
    chan,           \* request: none | sent | running | ok | fail | lost
    sends,          \* requests sent by the current controller function
    pageBusy,       \* actions whose page script is executing
    \* ---- page action ----
    script,         \* the page action that was called: none | export | flash | gemini
    sourceName,     \* a sourceName argument was given
    chapterName,    \* a chapterName (for Gemini: bookName and chapterName) was given
    pstep,          \* the step the page action is at, 0 when none is executing
    performed,      \* the steps that acted on the page, in the order they did
    failed,         \* the steps that did not find their element or threw
    thrown,         \* an error is propagating to the action's outer catch
    response,       \* what the page action returned: << >> or <<[success |-> ...]>>
    message,        \* the failed steps that the message of the returned response names
    \* ---- content-script listener ----
    requests,       \* the requests received, each with the sendResponse calls made
    \* ---- element lookup ----
    lkMode,         \* none | appear (waitForElement chain) | disappear
    cands,          \* the lookup's candidates: [how, timeout, poll] each
    ci,             \* the candidate being evaluated, 0 when none
    phase,          \* idle | polling | grace | resolved
    elapsed,        \* Date.now() - startTime of the current call, in ms
    dom,            \* the candidates that have a matching node in the DOM
    found,          \* -1 pending, 0 null / not found, i the node of candidate i
    observers,      \* MutationObservers installed by the current call
    hist,           \* what the DOM did during the lookup: ever, gone, late
    \* the NotebookLM page
    sources,        \* the source list of the open notebook, in display order
    artifacts,      \* the artifact library of the studio panel, in display order
    notebooks,      \* the titles of the project buttons, in display order
    opened,         \* what openNotebookByName chose
    job,            \* the page action at work on the lists
    done,           \* the last finished export: its name, whether every step of it worked, and of all exports so far
    \* flashcard generation
    gen,            \* waitForFlashcardGeneration and the end of handleCreateFlashcards
    \* text entry
    entry,          \* the text-entry step at work on a field of the page
    \* Markdown text
    md,             \* processHighlightsWithGemini's splitting or convertMarkdownToNotionBlocks at work
    \* message passing
    wire,           \* the requests sent, answered and handled in the run in progress, in order
    \* retry loops
    retry,          \* the retry loop of a rename step: which, its turns and the time they took
    \* the popup's form
    form,            \* whether a chapter is selected and whether a notebook name is available
    \* ---- Notion page creation ----
    upload,         \* createPageInDatabase: its blocks and the requests it made
    \* ---- source selection for flashcards ----
    selection,      \* step 1 of handleCreateFlashcards: the source checkboxes and the loop's place
    \* ---- Kindle file and chapter in the popup ----
    fileSel         \* the file input, the cached file, the chapter dropdown and the reads in progress

wfVars == <<checked, pc, btnDisabled, runs, runSel, toggles, result, errShown,
            status, completedList, aborted, stored, notionReqs, activeTab>>
brVars == <<cur, tab, attempts, chan, sends, pageBusy>>
pgVars == <<script, sourceName, chapterName, pstep, performed, failed, thrown, response, message>>
lsVars == <<requests>>
lcVars == <<lkMode, cands, ci, phase, elapsed, dom, found, observers, hist>>
nbVars == <<sources, artifacts, notebooks, opened, job, done>>
gnVars == <<gen>>
teVars == <<entry>>
mdVars == <<md>>
wrVars == <<wire>>
rtVars == <<retry>>
fmVars == <<form>>
upVars == <<upload>>
scVars == <<selection>>
fsVars == <<fileSel>>

\* ------------------------------------------------------------------ bounds
MaxRuns == 2
MaxToggles == 1
MaxRequests == 3
MaxSources == 2
MaxArtifacts == 2
MaxNotebooks == 2

\* --------------------------------------------------------------- constants
\* waitForTabReady: const maxAttempts = 20
maxAttempts == 20
\* waitForElement(selector, timeout = 5000, pollInterval = 250)
defaultPoll == 250
\* waitForElement: the final fallback timeout, setTimeout(..., 1000)
graceWindow == 1000
\* waitForElementToDisappear: setInterval(..., 100)
disappearPoll == 100
\* waitForFlashcardGeneration: const maxWaitTime = 5 * 60 * 1000
maxWaitTime == 300000
\* waitForFlashcardGeneration: const pollInterval = 1000
pollInterval == 1000
\* waitForFlashcardGeneration: the check that is made "immediately", setTimeout(..., 100)
firstCheck == 100

Actions == {"process", "notion", "quiz", "nblm", "flash"}

\* The order of the five blocks of handlePerformActions.
Rank(a) ==
    CASE a = "process" -> 1
      [] a = "notion"  -> 2
      [] a = "quiz"    -> 3
      [] a = "nblm"    -> 4
      [] a = "flash"   -> 5

\* The block that follows an action's block in handlePerformActions.
NextPc(a) ==
    CASE a = "process" -> "p_notion"
      [] a = "notion"  -> "p_quiz"
      [] a = "quiz"    -> "p_nblm"
      [] a = "nblm"    -> "p_flash"
      [] a = "flash"   -> "p_final"

NoResult == [a \in Actions |-> "none"]

\* showStatus(element, message, type)
showStatus(type, by, text) == [type |-> type, by |-> by, text |-> text]

\* ------------------------------------------------------------ orchestrator

\* The tab a controller function sends its request to: sendToGeminiChat to the
\* Gemini tab it opened, exportToNotebooklm to the NotebookLM tab it opened,
\* createFlashcards to the active tab, which it requires to be a NotebookLM page.
TabOf(a) == IF a = "quiz" THEN "gemini" ELSE "nblm"

\* chrome.tabs.sendMessage(tabId, request, callback) was called for action a.
Sent(a) == [kind |-> "send", req |-> a, to |-> TabOf(a), resp |-> "none"]

\* The listener of the tab called sendResponse for the request of action a.
Answered(a) == [kind |-> "respond", req |-> a, to |-> TabOf(a), resp |-> a]

\* The request whose response was produced last.
RECURSIVE LastAnswered(_)
LastAnswered(w) ==
    IF Len(w) = 0 THEN "none"
    ELSE IF w[Len(w)].kind = "respond" THEN w[Len(w)].req
    ELSE LastAnswered(SubSeq(w, 1, Len(w) - 1))

\* The callback that was given with the request of action a is run: with
\* chrome.runtime.lastError, or with the response that arrived.
Handled(a, lastError, w) ==
    [kind |-> "handle", req |-> a, to |-> TabOf(a),
     resp |-> IF lastError THEN "lastError" ELSE LastAnswered(w)]

\* A fresh run's bookkeeping (src/popup.js:1485, performActionsBtn.disabled = true).
BeginRun ==
    /\ btnDisabled' = TRUE
    /\ runs' = runs + 1
    /\ runSel' = checked
    /\ toggles' = 0
    /\ result' = NoResult
    /\ errShown' = {}
    /\ completedList' = {}
    /\ aborted' = FALSE
    /\ notionReqs' = 0
    /\ pc' = "p_process"

\* FirstFailure without the check of the notebook name.
FirstFailureNoNotebook(chapterSelected, notebookName) ==
    IF checked = {} THEN "select-action"
    ELSE IF ~chapterSelected THEN "select-chapter"
    ELSE "none"

\* The three preconditions of handlePerformActions in their order: the first
\* that does not hold, or "none".
FirstFailure(chapterSelected, notebookName) ==
    IF checked = {} THEN "select-action"
    ELSE IF ~chapterSelected THEN "select-chapter"
    ELSE IF ("nblm" \in checked \/ "flash" \in checked) /\ ~notebookName THEN "select-notebook"
    ELSE "none"

\* handlePerformActions up to the try block, with what chapterSelect.value and
\* the notebook name are: an early return with an error status at the first
\* precondition that does not hold, else the button is disabled.
ClickPerformWith(chapterSelected, notebookName) ==
    /\ pc = "idle"
    /\ ~btnDisabled
    /\ runs < MaxRuns
    /\ IF FirstFailure(chapterSelected, notebookName) # "none"
         THEN /\ status' = showStatus("error", "run", FirstFailure(chapterSelected, notebookName))
              /\ UNCHANGED <<checked, pc, btnDisabled, runs, runSel, toggles, result,
                             errShown, completedList, aborted, notionReqs>>
         ELSE /\ BeginRun
              /\ UNCHANGED <<checked, status>>
    /\ UNCHANGED <<stored, activeTab>>
    /\ UNCHANGED brVars
    /\ UNCHANGED <<pgVars, lsVars, lcVars, nbVars, gnVars, teVars, mdVars, wrVars, rtVars, fmVars, upVars, scVars, fsVars>>

\* handlePerformActions up to the try block: the three preconditions, each an
\* early return with an error status, then the button is disabled.
ClickPerform ==
    \E chapterSelected \in BOOLEAN, notebookName \in BOOLEAN :
       ClickPerformWith(chapterSelected, notebookName)

\* No chapter is selected and no notebook name is available.
NoForm == [chapter |-> FALSE, notebook |-> FALSE]

\* The user selects a chapter or returns to the empty option, picks a notebook
\* or clears the custom name.
FormChange ==
    /\ \E f \in [chapter : BOOLEAN, notebook : BOOLEAN] :
         /\ f # form
         /\ form' = f
    /\ UNCHANGED <<wfVars, brVars, pgVars, lsVars, lcVars, nbVars, gnVars, teVars, mdVars,
                   wrVars, rtVars, upVars, scVars, fsVars>>

\* A click on Perform Actions with the form as it is.
ClickWithForm == ClickPerformWith(form.chapter, form.notebook)

\* The user ticks or unticks an action checkbox; the checkboxes stay enabled
\* while a run is in progress.
ToggleCheckbox ==
    /\ \E a \in Actions :
         checked' = IF a \in checked THEN checked \ {a} ELSE checked \cup {a}
    /\ IF pc = "idle"
         THEN /\ runs < MaxRuns
              /\ toggles' = toggles
         ELSE /\ toggles < MaxToggles
              /\ toggles' = toggles + 1
    /\ UNCHANGED <<pc, btnDisabled, runs, runSel, result, errShown, status,
                   completedList, aborted, stored, notionReqs, activeTab>>
    /\ UNCHANGED brVars
    /\ UNCHANGED <<pgVars, lsVars, lcVars, nbVars, gnVars, teVars, mdVars, wrVars, rtVars, fmVars, upVars, scVars, fsVars>>

\* AbortRun without the finally block: the outer catch shows the error and
\* the button is left as it is.
AbortRunNoFinally ==
    /\ status' = showStatus("error", "run", "exception")
    /\ aborted' = TRUE
    /\ btnDisabled' = btnDisabled
    /\ pc' = "idle"

\* The outer catch and finally of handlePerformActions.
AbortRun ==
    /\ status' = showStatus("error", "run", "exception")
    /\ aborted' = TRUE
    /\ btnDisabled' = FALSE
    /\ pc' = "idle"

\* 1. Process highlights (if selected): the call of processKindleHighlights.
AtProcess ==
    /\ pc = "p_process"
    /\ pc' = IF "process" \in checked THEN "in_process" ELSE "p_notion"
    /\ UNCHANGED <<checked, btnDisabled, runs, runSel, toggles, result, errShown,
                   status, completedList, aborted, stored, notionReqs, activeTab>>
    /\ UNCHANGED brVars
    /\ UNCHANGED <<pgVars, lsVars, lcVars, nbVars, gnVars, teVars, mdVars, wrVars, rtVars, fmVars, upVars, scVars, fsVars>>

\* ProcessDone with a catch that never rethrows: the run goes on to the Copy
\* to Notion block after a failure.
ProcessDoneNoRethrow ==
    /\ pc = "in_process"
    /\ \E ok \in BOOLEAN :
         /\ stored' = IF ok THEN runs ELSE stored
         /\ result' = [result EXCEPT !["process"] = IF ok THEN "ok" ELSE "failed"]
         /\ errShown' = IF ok THEN errShown ELSE errShown \cup {"process"}
         /\ status' = showStatus(IF ok THEN "success" ELSE "error", "process",
                                 IF ok THEN "ok" ELSE "exception")
    /\ pc' = "p_notion"
    /\ UNCHANGED <<checked, btnDisabled, runs, runSel, toggles, completedList,
                   aborted, notionReqs, activeTab>>
    /\ UNCHANGED brVars
    /\ UNCHANGED <<pgVars, lsVars, lcVars, nbVars, gnVars, teVars, mdVars, wrVars, rtVars, fmVars, upVars, scVars, fsVars>>

\* ProcessDone with a catch that skips only the Copy to Notion block after a
\* failure and goes on with the Create Gemini quiz block.
ProcessDoneSkipNotion ==
    /\ pc = "in_process"
    /\ \E ok \in BOOLEAN :
         /\ stored' = IF ok THEN runs ELSE stored
         /\ result' = [result EXCEPT !["process"] = IF ok THEN "ok" ELSE "failed"]
         /\ errShown' = IF ok THEN errShown ELSE errShown \cup {"process"}
         /\ status' = showStatus(IF ok THEN "success" ELSE "error", "process",
                                 IF ok THEN "ok" ELSE "exception")
         /\ pc' = IF ~ok /\ "notion" \in checked THEN "p_quiz" ELSE "p_notion"
    /\ UNCHANGED <<checked, btnDisabled, runs, runSel, toggles, completedList,
                   aborted, notionReqs, activeTab>>
    /\ UNCHANGED brVars
    /\ UNCHANGED <<pgVars, lsVars, lcVars, nbVars, gnVars, teVars, mdVars, wrVars, rtVars, fmVars, upVars, scVars, fsVars>>

\* processKindleHighlights settles: it returns after saveProcessedContent, or it
\* throws (no file, no highlights); the catch rethrows when Copy to Notion is ticked.
ProcessDone ==
    /\ pc = "in_process"
    /\ \E ok \in BOOLEAN :
         IF ok
           THEN /\ stored' = runs
                /\ result' = [result EXCEPT !["process"] = "ok"]
                /\ status' = showStatus("success", "process", "ok")
                /\ pc' = "p_notion"
                /\ UNCHANGED <<errShown, aborted, btnDisabled>>
           ELSE /\ stored' = stored
                /\ result' = [result EXCEPT !["process"] = "failed"]
                /\ errShown' = errShown \cup {"process"}
                /\ IF "notion" \in checked
                     THEN AbortRun
                     ELSE /\ status' = showStatus("error", "process", "exception")
                          /\ pc' = "p_notion"
                          /\ UNCHANGED <<aborted, btnDisabled>>
    /\ UNCHANGED <<checked, runs, runSel, toggles, completedList, notionReqs, activeTab>>
    /\ UNCHANGED brVars
    /\ UNCHANGED <<pgVars, lsVars, lcVars, nbVars, gnVars, teVars, mdVars, wrVars, rtVars, fmVars, upVars, scVars, fsVars>>

\* 2. Copy to Notion (if selected): copyToNotion up to its first Notion request;
\* a missing configuration or missing stored content throws before any request.
AtNotion ==
    /\ pc = "p_notion"
    /\ \E configOk \in BOOLEAN :
         IF "notion" \notin checked
           THEN /\ pc' = "p_quiz"
                /\ UNCHANGED <<result, errShown, status, notionReqs>>
         ELSE IF configOk /\ stored # 0
           THEN /\ pc' = "in_notion"
                /\ notionReqs' = notionReqs + 1
                /\ status' = showStatus("info", "notion", "progress")
                /\ UNCHANGED <<result, errShown>>
         ELSE /\ pc' = "p_quiz"
              /\ result' = [result EXCEPT !["notion"] = "failed"]
              /\ errShown' = errShown \cup {"notion"}
              /\ status' = showStatus("error", "notion", "exception")
              /\ UNCHANGED notionReqs
    /\ UNCHANGED <<checked, btnDisabled, runs, runSel, toggles, completedList,
                   aborted, stored, activeTab>>
    /\ UNCHANGED brVars
    /\ UNCHANGED <<pgVars, lsVars, lcVars, nbVars, gnVars, teVars, mdVars, wrVars, rtVars, fmVars, upVars, scVars, fsVars>>

\* The Notion requests of copyToNotion settle: the page is created and opened
\* in a new tab, or a request throws and the catch shows the error.
NotionDone ==
    /\ pc = "in_notion"
    /\ \E ok \in BOOLEAN :
         IF ok
           THEN /\ result' = [result EXCEPT !["notion"] = "ok"]
                /\ status' = showStatus("success", "notion", "ok")
                /\ activeTab' = "notion"
                /\ UNCHANGED errShown
           ELSE /\ result' = [result EXCEPT !["notion"] = "failed"]
                /\ errShown' = errShown \cup {"notion"}
                /\ status' = showStatus("error", "notion", "exception")
                /\ UNCHANGED activeTab
    /\ pc' = "p_quiz"
    /\ UNCHANGED <<checked, btnDisabled, runs, runSel, toggles, completedList,
                   aborted, stored, notionReqs>>
    /\ UNCHANGED brVars
    /\ UNCHANGED <<pgVars, lsVars, lcVars, nbVars, gnVars, teVars, mdVars, wrVars, rtVars, fmVars, upVars, scVars, fsVars>>

\* -------------------------------------------------------------- controller

\* EndAction with a failure that is rethrown to the outer catch of
\* handlePerformActions instead of being absorbed by the action's own block.
EndActionAborting(a, ok, text) ==
    /\ result' = [result EXCEPT ![a] = IF ok THEN "ok" ELSE "failed"]
    /\ errShown' = IF ok THEN errShown ELSE errShown \cup {a}
    /\ status' = showStatus(IF ok THEN "success" ELSE "error", a, text)
    /\ pc' = IF ok THEN NextPc(a) ELSE "p_final"
    /\ cur' = "none"
    /\ tab' = "none"
    /\ attempts' = 0
    /\ chan' = "none"
    /\ sends' = 0

\* A controller function (sendToGeminiChat, exportToNotebooklm,
\* createFlashcards) returns: true after a success response, false otherwise.
\* Its promise is awaited by the action's block of handlePerformActions, which
\* ignores the boolean and goes on to the next block.
EndAction(a, ok, text) ==
    /\ result' = [result EXCEPT ![a] = IF ok THEN "ok" ELSE "failed"]
    /\ errShown' = IF ok THEN errShown ELSE errShown \cup {a}
    /\ status' = showStatus(IF ok THEN "success" ELSE "error", a, text)
    /\ pc' = NextPc(a)
    /\ cur' = "none"
    /\ tab' = "none"
    /\ attempts' = 0
    /\ chan' = "none"
    /\ sends' = 0

\* const tab = await chrome.tabs.create({url}); await waitForTabReady(tab.id)
OpenTab(a, page) ==
    /\ status' = showStatus("info", a, "progress")
    /\ activeTab' = page
    /\ cur' = a
    /\ tab' = "loading"
    /\ attempts' = 0
    /\ pc' = "waitTab"
    /\ UNCHANGED <<result, errShown, chan, sends>>

\* 3. Create Gemini quiz (if selected): createGeminiQuiz throws on a missing
\* file, title, URL or stored content, else calls sendToGeminiChat, which
\* opens the Gemini tab.
AtQuiz ==
    /\ pc = "p_quiz"
    /\ \E inputsOk \in BOOLEAN :
         IF "quiz" \notin checked
           THEN /\ pc' = "p_nblm"
                /\ UNCHANGED <<result, errShown, status, activeTab>>
                /\ UNCHANGED <<cur, tab, attempts, chan, sends>>
         ELSE IF inputsOk /\ stored # 0
           THEN OpenTab("quiz", "gemini")
         ELSE /\ EndAction("quiz", FALSE, "precondition")
              /\ UNCHANGED activeTab
    /\ UNCHANGED <<checked, btnDisabled, runs, runSel, toggles, completedList,
                   aborted, stored, notionReqs, pageBusy>>
    /\ UNCHANGED <<pgVars, lsVars, lcVars, nbVars, gnVars, teVars, mdVars, wrVars, rtVars, fmVars, upVars, scVars, fsVars>>

\* 4. Add source to NotebookLM (if selected): addSourceToNotebooklm throws
\* without a notebook name (possible only when the run's precondition did not
\* cover it); exportToNotebooklm reads the clipboard, returns false when it is
\* empty or unreadable, else opens the NotebookLM tab.
AtNblm ==
    /\ pc = "p_nblm"
    /\ \E input \in {"no-notebook", "clipboard-throws", "clipboard-empty", "text"} :
         /\ input = "no-notebook" => runSel \cap {"nblm", "flash"} = {}
         /\ IF "nblm" \notin checked
              THEN /\ pc' = "p_flash"
                   /\ UNCHANGED <<result, errShown, status, activeTab>>
                   /\ UNCHANGED <<cur, tab, attempts, chan, sends>>
            ELSE IF input = "text"
              THEN OpenTab("nblm", "nblm")
            ELSE /\ EndAction("nblm", FALSE,
                              IF input = "clipboard-empty" THEN "no-content" ELSE "exception")
                 /\ UNCHANGED activeTab
    /\ UNCHANGED <<checked, btnDisabled, runs, runSel, toggles, completedList,
                   aborted, stored, notionReqs, pageBusy>>
    /\ UNCHANGED <<pgVars, lsVars, lcVars, nbVars, gnVars, teVars, mdVars, wrVars, rtVars, fmVars, upVars, scVars, fsVars>>

\* createFlashcards without the test of the active tab's URL.
AtFlashAnyTab ==
    /\ pc = "p_flash"
    /\ IF "flash" \notin checked
         THEN /\ pc' = "p_final"
              /\ UNCHANGED <<result, errShown, status>>
              /\ UNCHANGED <<cur, tab, attempts, chan, sends>>
       ELSE /\ status' = showStatus("info", "flash", "progress")
            /\ cur' = "flash"
            /\ tab' = "complete"
            /\ chan' = "sent"
            /\ sends' = sends + 1
            /\ pc' = "awaitResp"
            /\ UNCHANGED <<result, errShown, attempts>>
    /\ UNCHANGED <<checked, btnDisabled, runs, runSel, toggles, completedList,
                   aborted, stored, notionReqs, activeTab, pageBusy>>
    /\ wire' = IF "flash" \in checked THEN Append(wire, Sent("flash")) ELSE wire
    /\ UNCHANGED <<pgVars, lsVars, lcVars, nbVars, gnVars, teVars, mdVars, rtVars, fmVars, upVars, scVars, fsVars>>

\* 5. Generate flashcards (if selected): createFlashcards returns false unless
\* the active tab is a NotebookLM page, else sends its request to that tab.
AtFlash ==
    /\ pc = "p_flash"
    /\ IF "flash" \notin checked
         THEN /\ pc' = "p_final"
              /\ UNCHANGED <<result, errShown, status>>
              /\ UNCHANGED <<cur, tab, attempts, chan, sends>>
       ELSE IF activeTab # "nblm"
         THEN EndAction("flash", FALSE, "navigate-first")
       ELSE /\ status' = showStatus("info", "flash", "progress")
            /\ cur' = "flash"
            /\ tab' = "complete"
            /\ chan' = "sent"
            /\ sends' = sends + 1
            /\ pc' = "awaitResp"
            /\ UNCHANGED <<result, errShown, attempts>>
    /\ UNCHANGED <<checked, btnDisabled, runs, runSel, toggles, completedList,
                   aborted, stored, notionReqs, activeTab, pageBusy>>
    /\ wire' = IF "flash" \in checked /\ activeTab = "nblm" THEN Append(wire, Sent("flash")) ELSE wire
    /\ UNCHANGED <<pgVars, lsVars, lcVars, nbVars, gnVars, teVars, mdVars, rtVars, fmVars, upVars, scVars, fsVars>>

\* The final status of handlePerformActions and its finally block.
AtFinal ==
    /\ pc = "p_final"
    /\ completedList' = checked
    /\ status' = showStatus("success", "run", "completed")
    /\ btnDisabled' = FALSE
    /\ pc' = "idle"
    /\ UNCHANGED <<checked, runs, runSel, toggles, result, errShown, aborted,
                   stored, notionReqs, activeTab>>
    /\ UNCHANGED brVars
    /\ wire' = << >>
    /\ UNCHANGED <<pgVars, lsVars, lcVars, nbVars, gnVars, teVars, mdVars, rtVars, fmVars, upVars, scVars, fsVars>>

\* ------------------------------------------------------------------ bridge

\* CheckReady that gives up at its first poll of a tab that is not complete.
CheckReadyNoWait ==
    /\ pc = "waitTab"
    /\ IF tab = "closed"
         THEN EndAction(cur, FALSE, "tab-error")
       ELSE IF tab = "complete"
         THEN /\ pc' = "settle"
              /\ UNCHANGED <<result, errShown, status, cur, tab, attempts, chan, sends>>
       ELSE /\ attempts' = attempts + 1
            /\ pc' = "send"
            /\ UNCHANGED <<result, errShown, status, cur, tab, chan, sends>>
    /\ UNCHANGED <<checked, btnDisabled, runs, runSel, toggles, completedList,
                   aborted, stored, notionReqs, activeTab, pageBusy>>
    /\ UNCHANGED <<pgVars, lsVars, lcVars, nbVars, gnVars, teVars, mdVars, wrVars, rtVars, fmVars, upVars, scVars, fsVars>>

\* One checkReady of waitForTabReady: chrome.tabs.get fails (the tab is gone)
\* and the promise rejects into the caller's catch; the tab is complete and the
\* settle timer is armed; or one more attempt is counted and, at maxAttempts,
\* the promise resolves anyway.
CheckReady ==
    /\ pc = "waitTab"
    /\ IF tab = "closed"
         THEN EndAction(cur, FALSE, "tab-error")
       ELSE IF tab = "complete"
         THEN /\ pc' = "settle"
              /\ UNCHANGED <<result, errShown, status, cur, tab, attempts, chan, sends>>
       ELSE /\ attempts' = attempts + 1
            /\ pc' = IF attempts + 1 >= maxAttempts THEN "send" ELSE "waitTab"
            /\ UNCHANGED <<result, errShown, status, cur, tab, chan, sends>>
    /\ UNCHANGED <<checked, btnDisabled, runs, runSel, toggles, completedList,
                   aborted, stored, notionReqs, activeTab, pageBusy>>
    /\ UNCHANGED <<pgVars, lsVars, lcVars, nbVars, gnVars, teVars, mdVars, wrVars, rtVars, fmVars, upVars, scVars, fsVars>>

\* setTimeout(resolve, 500) after the tab was seen complete.
SettleElapsed ==
    /\ pc = "settle"
    /\ pc' = "send"
    /\ UNCHANGED <<checked, btnDisabled, runs, runSel, toggles, result, errShown,
                   status, completedList, aborted, stored, notionReqs, activeTab>>
    /\ UNCHANGED brVars
    /\ UNCHANGED <<pgVars, lsVars, lcVars, nbVars, gnVars, teVars, mdVars, wrVars, rtVars, fmVars, upVars, scVars, fsVars>>

\* SendRequest without awaiting the response: the controller function returns
\* as soon as the request is sent.
SendRequestNoAwait ==
    /\ pc = "send"
    /\ chan' = "sent"
    /\ sends' = sends + 1
    /\ pc' = NextPc(cur)
    /\ result' = [result EXCEPT ![cur] = "ok"]
    /\ UNCHANGED <<cur, tab, attempts, pageBusy>>
    /\ UNCHANGED <<checked, btnDisabled, runs, runSel, toggles, errShown,
                   status, completedList, aborted, stored, notionReqs, activeTab>>
    /\ wire' = Append(wire, Sent(cur))
    /\ UNCHANGED <<pgVars, lsVars, lcVars, nbVars, gnVars, teVars, mdVars, rtVars, fmVars, upVars, scVars, fsVars>>

\* chrome.tabs.sendMessage(tab.id, {action: ...}, callback): one request; the
\* promise resolves only in the callback.
SendRequest ==
    /\ pc = "send"
    /\ chan' = "sent"
    /\ sends' = sends + 1
    /\ pc' = "awaitResp"
    /\ UNCHANGED <<cur, tab, attempts, pageBusy>>
    /\ UNCHANGED <<checked, btnDisabled, runs, runSel, toggles, result, errShown,
                   status, completedList, aborted, stored, notionReqs, activeTab>>
    /\ wire' = Append(wire, Sent(cur))
    /\ UNCHANGED <<pgVars, lsVars, lcVars, nbVars, gnVars, teVars, mdVars, rtVars, fmVars, upVars, scVars, fsVars>>

\* ResponseCallback that returns on chrome.runtime.lastError without resolving
\* the promise.
ResponseCallbackDropsError ==
    /\ pc = "awaitResp"
    /\ chan \in {"ok", "fail"}
    /\ EndAction(cur, chan = "ok", IF chan = "ok" THEN "ok" ELSE "failed")
    /\ UNCHANGED <<checked, btnDisabled, runs, runSel, toggles, completedList,
                   aborted, stored, notionReqs, activeTab, pageBusy>>
    /\ wire' = Append(wire, Handled(cur, chan = "lost", wire))
    /\ UNCHANGED <<pgVars, lsVars, lcVars, nbVars, gnVars, teVars, mdVars, rtVars, fmVars, upVars, scVars, fsVars>>

\* The callback of chrome.tabs.sendMessage: chrome.runtime.lastError (no
\* receiver, or the channel was lost), a response with success, or any other
\* response.
ResponseCallback ==
    /\ pc = "awaitResp"
    /\ chan \in {"ok", "fail", "lost"}
    /\ EndAction(cur, chan = "ok",
                 CASE chan = "ok" -> "ok"
                   [] chan = "fail" -> "failed"
                   [] chan = "lost" -> "retry")
    /\ UNCHANGED <<checked, btnDisabled, runs, runSel, toggles, completedList,
                   aborted, stored, notionReqs, activeTab, pageBusy>>
    /\ wire' = Append(wire, Handled(cur, chan = "lost", wire))
    /\ UNCHANGED <<pgVars, lsVars, lcVars, nbVars, gnVars, teVars, mdVars, rtVars, fmVars, upVars, scVars, fsVars>>

\* ------------------------------------------------------- browser and page

\* The request reaches the tab: its content-script listener starts the page
\* action and keeps the channel open (return true), or there is no receiver
\* and the callback is run with chrome.runtime.lastError.
DeliverRequest ==
    /\ chan = "sent"
    /\ \E listening \in BOOLEAN :
         IF listening /\ tab # "closed"
           THEN /\ chan' = "running"
                /\ pageBusy' = pageBusy \cup {cur}
           ELSE /\ chan' = "lost"
                /\ UNCHANGED pageBusy
    /\ UNCHANGED <<cur, tab, attempts, sends>>
    /\ UNCHANGED wfVars
    /\ UNCHANGED <<pgVars, lsVars, lcVars, nbVars, gnVars, teVars, mdVars, wrVars, rtVars, fmVars, upVars, scVars, fsVars>>

\* The page action settles and the listener calls sendResponse(result).
PageResponds ==
    /\ chan = "running"
    /\ \E success \in BOOLEAN : chan' = IF success THEN "ok" ELSE "fail"
    /\ pageBusy' = pageBusy \ {cur}
    /\ UNCHANGED <<cur, tab, attempts, sends>>
    /\ UNCHANGED wfVars
    /\ wire' = Append(wire, Answered(cur))
    /\ UNCHANGED <<pgVars, lsVars, lcVars, nbVars, gnVars, teVars, mdVars, rtVars, fmVars, upVars, scVars, fsVars>>

\* The new tab finishes loading: tab.status becomes "complete".
TabLoads ==
    /\ tab = "loading"
    /\ tab' = "complete"
    /\ UNCHANGED <<cur, attempts, chan, sends, pageBusy>>
    /\ UNCHANGED wfVars
    /\ UNCHANGED <<pgVars, lsVars, lcVars, nbVars, gnVars, teVars, mdVars, wrVars, rtVars, fmVars, upVars, scVars, fsVars>>

\* The user closes the target tab (or it navigates away): its page context is
\* torn down, chrome.tabs.get fails from now on and an open message channel is
\* closed with chrome.runtime.lastError.
TabClosed ==
    /\ tab \in {"loading", "complete"}
    /\ tab' = "closed"
    /\ pageBusy' = pageBusy \ {cur}
    /\ chan' = IF chan \in {"sent", "running"} THEN "lost" ELSE chan
    /\ activeTab' = "other"
    /\ UNCHANGED <<cur, attempts, sends>>
    /\ UNCHANGED <<checked, pc, btnDisabled, runs, runSel, toggles, result, errShown,
                   status, completedList, aborted, stored, notionReqs>>
    /\ UNCHANGED <<pgVars, lsVars, lcVars, nbVars, gnVars, teVars, mdVars, wrVars, rtVars, fmVars, upVars, scVars, fsVars>>

\* ------------------------------------------------------------ page actions

\* The steps of the three page actions in their declared order. An optional
\* step runs inside its own try/catch (or in a helper that catches everything
\* itself) and only when its argument is given; a required step looks its
\* element up through `cands` candidate selectors, one after the other, and
\* throws when none matches; a wait is a bounded wait that resolves either
\* way; a besteffort step clicks its element if it finds one.
Steps(s) ==
    CASE s = "export" ->
           << [name |-> "deleteExistingSource", kind |-> "optional",   cands |-> 0, arg |-> "sourceName"],
              [name |-> "addSourceButton",      kind |-> "required",   cands |-> 1, arg |-> "none"],
              [name |-> "waitModal",            kind |-> "wait",       cands |-> 0, arg |-> "none"],
              [name |-> "copiedTextChip",       kind |-> "required",   cands |-> 3, arg |-> "none"],
              [name |-> "waitTextarea",         kind |-> "wait",       cands |-> 0, arg |-> "none"],
              [name |-> "textarea",             kind |-> "required",   cands |-> 2, arg |-> "none"],
              [name |-> "insertButton",         kind |-> "required",   cands |-> 3, arg |-> "none"],
              [name |-> "waitInserted",         kind |-> "wait",       cands |-> 0, arg |-> "none"],
              [name |-> "closeButton",          kind |-> "besteffort", cands |-> 3, arg |-> "none"],
              [name |-> "renameSource",         kind |-> "optional",   cands |-> 0, arg |-> "sourceName"] >>
      [] s = "flash" ->
           << [name |-> "selectSource",           kind |-> "optional", cands |-> 0, arg |-> "sourceName"],
              [name |-> "createFlashcardsButton", kind |-> "required", cands |-> 3, arg |-> "none"],
              [name |-> "waitForFlashcardGeneration", kind |-> "wait", cands |-> 0, arg |-> "none"],
              [name |-> "renameFlashcard",        kind |-> "optional", cands |-> 0, arg |-> "chapterName"] >>
      [] s = "gemini" ->
           << [name |-> "inputContainer",           kind |-> "required", cands |-> 1, arg |-> "none"],
              [name |-> "selectGeminiModel",        kind |-> "optional", cands |-> 0, arg |-> "none"],
              [name |-> "inputArea",                kind |-> "required", cands |-> 4, arg |-> "none"],
              [name |-> "contentInput",             kind |-> "required", cands |-> 5, arg |-> "none"],
              [name |-> "sendButton",               kind |-> "required", cands |-> 4, arg |-> "none"],
              [name |-> "renameGeminiConversation", kind |-> "optional", cands |-> 0, arg |-> "chapterName"] >>
      [] OTHER -> << >>

Scripts == {"export", "flash", "gemini"}

\* The position of a step in its script's declared order (0: not a step).
StepIndex(s, n) ==
    IF \E i \in 1..Len(Steps(s)) : Steps(s)[i].name = n
      THEN CHOOSE i \in 1..Len(Steps(s)) : Steps(s)[i].name = n
      ELSE 0

\* The required steps of a script.
RequiredSteps(s) ==
    {Steps(s)[i].name : i \in {j \in 1..Len(Steps(s)) : Steps(s)[j].kind = "required"}}

\* The step the running page action is at.
CurStep == Steps(script)[pstep]

AtStep(kind) ==
    /\ pstep \in 1..Len(Steps(script))
    /\ ~thrown
    /\ CurStep.kind = kind

\* if (sourceName) / if (chapterName) / if (bookName && chapterName)
ArgGiven(a) ==
    CASE a = "sourceName"  -> sourceName
      [] a = "chapterName" -> chapterName
      [] OTHER             -> TRUE

\* No retry loop has run in the page action.
NoRetry == [phase |-> "none", loop |-> "none", attempts |-> 0, elapsed |-> 0, button |-> FALSE]

\* The content script (or the injected function) calls a page action with its
\* arguments: handleNotebooklmExport(content, sourceName),
\* handleCreateFlashcards(sourceName, chapterName),
\* handleSendToGeminiChat(content, bookName, chapterName).
StartScript ==
    /\ pstep = 0
    /\ \E s \in Scripts, sn \in BOOLEAN, cn \in BOOLEAN :
         /\ s = "export" => ~cn
         /\ s = "gemini" => ~sn
         /\ script' = s
         /\ sourceName' = sn
         /\ chapterName' = cn
    /\ pstep' = 1
    /\ performed' = << >>
    /\ failed' = {}
    /\ thrown' = FALSE
    /\ response' = << >>
    /\ message' = {}
    /\ retry' = NoRetry
    /\ UNCHANGED <<wfVars, brVars, lsVars, lcVars, nbVars, gnVars, teVars, mdVars, wrVars, fmVars, upVars, scVars, fsVars>>

\* StepOptional with no try/catch around the optional step: its error
\* propagates to the action's outer catch.
StepOptionalUncaught ==
    /\ AtStep("optional")
    /\ IF ~ArgGiven(CurStep.arg)
         THEN /\ pstep' = pstep + 1
              /\ UNCHANGED <<performed, failed, thrown>>
         ELSE \E outcome \in {"done", "notfound", "throws"} :
                /\ performed' = IF outcome = "done"
                                  THEN Append(performed, CurStep.name) ELSE performed
                /\ failed' = IF outcome = "done" THEN failed ELSE failed \cup {CurStep.name}
                /\ thrown' = (outcome # "done")
                /\ pstep' = IF outcome = "done" THEN pstep + 1 ELSE pstep
    /\ UNCHANGED <<script, sourceName, chapterName, response, message>>
    /\ UNCHANGED <<wfVars, brVars, lsVars, lcVars, nbVars, gnVars, teVars, mdVars, wrVars, rtVars, fmVars, upVars, scVars, fsVars>>

\* An optional step: skipped without its argument; else it does its work, or
\* it does not find its element (a warning is logged), or it throws and its
\* own catch logs the error. The action goes on to the next step in each case.
StepOptional ==
    /\ AtStep("optional")
    /\ IF ~ArgGiven(CurStep.arg)
         THEN UNCHANGED <<performed, failed>>
         ELSE \E outcome \in {"done", "notfound", "throws"} :
                /\ performed' = IF outcome = "done"
                                  THEN Append(performed, CurStep.name) ELSE performed
                /\ failed' = IF outcome = "done" THEN failed ELSE failed \cup {CurStep.name}
    /\ pstep' = pstep + 1
    /\ UNCHANGED <<script, sourceName, chapterName, thrown, response, message>>
    /\ UNCHANGED <<wfVars, brVars, lsVars, lcVars, nbVars, gnVars, teVars, mdVars, wrVars, rtVars, fmVars, upVars, scVars, fsVars>>

\* StepRequired that only logs a missing element and goes on to the next step.
StepRequiredContinues ==
    /\ AtStep("required")
    /\ \E hit \in 0..CurStep.cands :
         /\ performed' = IF hit = 0 THEN performed ELSE Append(performed, CurStep.name)
         /\ failed' = IF hit = 0 THEN failed \cup {CurStep.name} ELSE failed
    /\ pstep' = pstep + 1
    /\ UNCHANGED <<script, sourceName, chapterName, thrown, response, message>>
    /\ UNCHANGED <<wfVars, brVars, lsVars, lcVars, nbVars, gnVars, teVars, mdVars, wrVars, rtVars, fmVars, upVars, scVars, fsVars>>

\* A required step: the candidates are tried in order; the first hit is acted
\* on (click, or focus and text entry); with no hit the step throws
\* (throw new Error('Could not find ...')).
StepRequired ==
    /\ AtStep("required")
    /\ \E hit \in 0..CurStep.cands :
         IF hit = 0
           THEN /\ failed' = failed \cup {CurStep.name}
                /\ thrown' = TRUE
                /\ UNCHANGED <<performed, pstep>>
           ELSE /\ performed' = Append(performed, CurStep.name)
                /\ pstep' = pstep + 1
                /\ UNCHANGED <<failed, thrown>>
    /\ UNCHANGED <<script, sourceName, chapterName, response, message>>
    /\ UNCHANGED <<wfVars, brVars, lsVars, lcVars, nbVars, gnVars, teVars, mdVars, wrVars, rtVars, fmVars, upVars, scVars, fsVars>>

\* A bounded wait (waitForElement whose result is ignored, setTimeout,
\* Promise.race, waitForFlashcardGeneration): it resolves either way.
StepWait ==
    /\ AtStep("wait")
    /\ pstep' = pstep + 1
    /\ UNCHANGED <<script, sourceName, chapterName, performed, failed, thrown, response, message>>
    /\ UNCHANGED <<wfVars, brVars, lsVars, lcVars, nbVars, gnVars, teVars, mdVars, wrVars, rtVars, fmVars, upVars, scVars, fsVars>>

\* Step 5 of handleNotebooklmExport: the close button is clicked if one of its
\* candidates is found ('Could not find close button, but continuing...').
StepBestEffort ==
    /\ AtStep("besteffort")
    /\ \E hit \in 0..CurStep.cands :
         performed' = IF hit = 0 THEN performed ELSE Append(performed, CurStep.name)
    /\ pstep' = pstep + 1
    /\ UNCHANGED <<script, sourceName, chapterName, failed, thrown, response, message>>
    /\ UNCHANGED <<wfVars, brVars, lsVars, lcVars, nbVars, gnVars, teVars, mdVars, wrVars, rtVars, fmVars, upVars, scVars, fsVars>>

\* The outer catch of a page action: return {success: false, error: error.message}.
OuterCatch ==
    /\ pstep # 0
    /\ thrown
    /\ response' = << [success |-> FALSE] >>
    /\ message' = {}
    /\ thrown' = FALSE
    /\ pstep' = 0
    /\ UNCHANGED <<script, sourceName, chapterName, performed, failed>>
    /\ UNCHANGED <<wfVars, brVars, lsVars, lcVars, nbVars, gnVars, teVars, mdVars, wrVars, rtVars, fmVars, upVars, scVars, fsVars>>

\* The optional steps whose failure is written into the message of the
\* success response ('..., but rename failed: ...'); the failures of the
\* others only go to console.warn.
ReportedSteps == {"renameFlashcard", "renameGeminiConversation"}

\* The end of the try block of a page action: return {success: true, message}.
ReturnSuccess ==
    /\ pstep = Len(Steps(script)) + 1
    /\ ~thrown
    /\ response' = << [success |-> TRUE] >>
    /\ message' = failed \cap ReportedSteps
    /\ pstep' = 0
    /\ UNCHANGED <<script, sourceName, chapterName, performed, failed, thrown>>
    /\ UNCHANGED <<wfVars, brVars, lsVars, lcVars, nbVars, gnVars, teVars, mdVars, wrVars, rtVars, fmVars, upVars, scVars, fsVars>>

\* ---------------------------------------------------------------- listener

\* The actions the listener of content.js knows, and one it does not.
KnownActions == {"exportToNotebooklm", "createFlashcards"}
RequestActions == KnownActions \cup {"openNotebookAndExport"}

\* Receive without the two `return true` statements: a known action starts
\* its handler and the listener falls through to sendResponse({status: 'ready'}).
ReceiveFallsThrough ==
    /\ Len(requests) < MaxRequests
    /\ \E action \in RequestActions :
         requests' = Append(requests,
            [action    |-> action,
             handler   |-> IF action \in KnownActions THEN "running" ELSE "none",
             keptOpen  |-> FALSE,
             responses |-> << [success |-> "absent", status |-> "ready"] >>])
    /\ UNCHANGED <<wfVars, brVars, pgVars, lcVars, nbVars, gnVars, teVars, mdVars, wrVars, rtVars, fmVars, upVars, scVars, fsVars>>

\* The listener is called with a request: a known action starts its handler
\* and returns true (the channel stays open); anything else is answered at
\* once with {status: 'ready'}.
Receive ==
    /\ Len(requests) < MaxRequests
    /\ \E action \in RequestActions :
         requests' = Append(requests,
            IF action \in KnownActions
              THEN [action    |-> action,
                    handler   |-> "running",
                    keptOpen  |-> TRUE,
                    responses |-> << >>]
              ELSE [action    |-> action,
                    handler   |-> "none",
                    keptOpen  |-> FALSE,
                    responses |-> << [success |-> "absent", status |-> "ready"] >>])
    /\ UNCHANGED <<wfVars, brVars, pgVars, lcVars, nbVars, gnVars, teVars, mdVars, wrVars, rtVars, fmVars, upVars, scVars, fsVars>>

\* The handler's promise settles: .then(result => sendResponse(result)) with
\* the handler's result, or .catch(error => sendResponse({success: false,
\* error: error.message})).
HandlerSettles(i) ==
    /\ i \in 1..Len(requests)
    /\ requests[i].handler = "running"
    /\ \E outcome \in {"success", "failure", "rejected"} :
         requests' = [requests EXCEPT
            ![i].handler = IF outcome = "rejected" THEN "rejected" ELSE "resolved",
            ![i].responses = Append(@,
               [success |-> IF outcome = "success" THEN "true" ELSE "false",
                status  |-> "absent"])]
    /\ UNCHANGED <<wfVars, brVars, pgVars, lcVars, nbVars, gnVars, teVars, mdVars, wrVars, rtVars, fmVars, upVars, scVars, fsVars>>

HandlerStep == \E i \in 1..MaxRequests : HandlerSettles(i)

\* ----------------------------------------------------------- element lookup

\* The nodes a lookup's candidates can match: node i matches candidate i.
Nodes == {1, 2, 3}

\* await waitForElement(selector, t, p)
Wait(t, p) == [how |-> "wait", timeout |-> t, poll |-> p]

\* The last fallback of a lookup: one querySelectorAll and a search by text.
Scan == [how |-> "scan", timeout |-> 0, poll |-> 0]

\* The lookups of the page actions: the Copied text chip, the paste textarea,
\* the Insert and Create flashcards buttons, and single waitForElement calls.
Lookups ==
    { << Wait(3000, defaultPoll), Wait(2000, defaultPoll), Scan >>,
      << Wait(5000, defaultPoll), Wait(3000, defaultPoll) >>,
      << Wait(5000, defaultPoll), Wait(3000, defaultPoll), Scan >> }
    \cup { << Wait(t, p) >> : t \in {2000, 3000}, p \in {100, defaultPoll} }

\* What happened to the candidates' nodes during a lookup: ever in the DOM,
\* removed from it, inserted after the polling of their own call was over
\* (late), in the DOM during their own call before its timeout had passed
\* (early) or at any time of their own call (seen), made to match by a
\* change that is no childList mutation (silent); and the calls that
\* resolved to null, with the milliseconds each had taken.
NoHist ==
    [ever |-> {}, gone |-> {}, late |-> {}, early |-> {}, seen |-> {},
     silent |-> {}, nulls |-> {}]

\* Candidate i of the candidates cs is evaluated with the DOM d: past the last
\* candidate nothing was found; a scan looks once; a waitForElement call
\* checks the DOM immediately and starts polling when nothing matches.
Evaluate(cs, i, d) ==
    IF i > Len(cs)
      THEN [ci |-> Len(cs), phase |-> "resolved", found |-> 0]
    ELSE IF cs[i].how = "scan"
      THEN [ci |-> i, phase |-> "resolved", found |-> IF i \in d THEN i ELSE 0]
    ELSE IF i \in d
      THEN [ci |-> i, phase |-> "resolved", found |-> i]
    ELSE [ci |-> i, phase |-> "polling", found |-> -1]

\* The immediate check of a call found its element.
Checked(h, r) ==
    IF r.found = r.ci /\ r.found > 0
      THEN [h EXCEPT !.early = @ \cup {r.ci}, !.seen = @ \cup {r.ci}]
      ELSE h

\* The state at the start of a call: let startTime = Date.now(); let resolved = false
Enter(r) ==
    /\ ci' = r.ci
    /\ phase' = r.phase
    /\ found' = r.found
    /\ elapsed' = 0
    /\ observers' = 0

\* A page action starts one of its lookups.
StartLookup ==
    /\ phase \in {"idle", "resolved"}
    /\ \E cs \in Lookups :
         /\ cands' = cs
         /\ Enter(Evaluate(cs, 1, dom))
         /\ hist' = Checked([NoHist EXCEPT !.ever = dom], Evaluate(cs, 1, dom))
    /\ lkMode' = "appear"
    /\ UNCHANGED dom
    /\ UNCHANGED <<wfVars, brVars, pgVars, lsVars, nbVars, gnVars, teVars, mdVars, wrVars, rtVars, fmVars, upVars, scVars, fsVars>>

\* PollTick that resolves null at its first tick without looking at the clock.
PollTickEarlyNull ==
    /\ lkMode = "appear"
    /\ phase = "polling"
    /\ IF ci \in dom
         THEN /\ found' = ci
              /\ phase' = "resolved"
              /\ elapsed' = elapsed + cands[ci].poll
              /\ UNCHANGED <<ci, observers, hist>>
         ELSE /\ hist' = Checked([hist EXCEPT !.nulls = @ \cup
                                     {[cand |-> ci, after |-> elapsed + cands[ci].poll]}],
                                  Evaluate(cands, ci + 1, dom))
              /\ Enter(Evaluate(cands, ci + 1, dom))
    /\ UNCHANGED <<lkMode, cands, dom>>
    /\ UNCHANGED <<wfVars, brVars, pgVars, lsVars, nbVars, gnVars, teVars, mdVars, wrVars, rtVars, fmVars, upVars, scVars, fsVars>>

\* PollTick that starts again from the first candidate at every tick and
\* returns the node of the lowest candidate that matches.
PollTickFromTop ==
    /\ lkMode = "appear"
    /\ phase = "polling"
    /\ IF \E j \in 1..ci : j \in dom
         THEN /\ found' = CHOOSE j \in 1..ci : j \in dom /\ \A k \in 1..(j - 1) : k \notin dom
              /\ phase' = "resolved"
              /\ elapsed' = elapsed + cands[ci].poll
              /\ UNCHANGED observers
         ELSE IF elapsed + cands[ci].poll >= cands[ci].timeout
           THEN /\ phase' = "grace"
                /\ observers' = observers + 1
                /\ elapsed' = elapsed + cands[ci].poll
                /\ UNCHANGED found
         ELSE /\ elapsed' = elapsed + cands[ci].poll
              /\ UNCHANGED <<phase, found, observers>>
    /\ UNCHANGED <<lkMode, cands, ci, dom, hist>>
    /\ UNCHANGED <<wfVars, brVars, pgVars, lsVars, nbVars, gnVars, teVars, mdVars, wrVars, rtVars, fmVars, upVars, scVars, fsVars>>

\* PollTick without `resolved = true; clearInterval(pollIntervalId)` on
\* timeout: the interval keeps firing during the grace window and each tick
\* installs one more observer.
PollTickNoClear ==
    /\ lkMode = "appear"
    /\ phase \in {"polling", "grace"}
    /\ observers < 3
    /\ IF ci \in dom
         THEN /\ found' = ci
              /\ phase' = "resolved"
              /\ elapsed' = elapsed + cands[ci].poll
              /\ UNCHANGED observers
         ELSE IF elapsed + cands[ci].poll >= cands[ci].timeout
           THEN /\ phase' = "grace"
                /\ observers' = observers + 1
                /\ elapsed' = IF phase = "grace" THEN elapsed ELSE elapsed + cands[ci].poll
                /\ UNCHANGED found
         ELSE /\ elapsed' = elapsed + cands[ci].poll
              /\ UNCHANGED <<phase, found, observers>>
    /\ UNCHANGED <<lkMode, cands, ci, dom, hist>>
    /\ UNCHANGED <<wfVars, brVars, pgVars, lsVars, nbVars, gnVars, teVars, mdVars, wrVars, rtVars, fmVars, upVars, scVars, fsVars>>

\* One tick of waitForElement's setInterval: the element is there and the
\* call resolves to it; or the timeout has passed, the interval is cleared, a
\* MutationObserver is installed on document.body and the final fallback
\* timeout is armed; or polling goes on.
PollTick ==
    /\ lkMode = "appear"
    /\ phase = "polling"
    /\ IF ci \in dom
         THEN /\ found' = ci
              /\ phase' = "resolved"
              /\ elapsed' = elapsed + cands[ci].poll
              /\ UNCHANGED observers
         ELSE IF elapsed + cands[ci].poll >= cands[ci].timeout
           THEN /\ phase' = "grace"
                /\ observers' = observers + 1
                /\ elapsed' = elapsed + cands[ci].poll
                /\ UNCHANGED found
         ELSE /\ elapsed' = elapsed + cands[ci].poll
              /\ UNCHANGED <<phase, found, observers>>
    /\ UNCHANGED <<lkMode, cands, ci, dom, hist>>
    /\ UNCHANGED <<wfVars, brVars, pgVars, lsVars, nbVars, gnVars, teVars, mdVars, wrVars, rtVars, fmVars, upVars, scVars, fsVars>>

\* GraceEnd after which the lookup gives up instead of trying its next candidate.
GraceEndGivesUp ==
    /\ lkMode = "appear"
    /\ phase = "grace"
    /\ hist' = [hist EXCEPT !.nulls = @ \cup
                  {[cand |-> ci, after |-> elapsed + graceWindow]}]
    /\ Enter([ci |-> ci, phase |-> "resolved", found |-> 0])
    /\ UNCHANGED <<lkMode, cands, dom>>
    /\ UNCHANGED <<wfVars, brVars, pgVars, lsVars, nbVars, gnVars, teVars, mdVars, wrVars, rtVars, fmVars, upVars, scVars, fsVars>>

\* The final fallback timeout of waitForElement: the observer is disconnected
\* and the call resolves to null; the lookup goes on with its next candidate.
GraceEnd ==
    /\ lkMode = "appear"
    /\ phase = "grace"
    /\ hist' = Checked([hist EXCEPT !.nulls = @ \cup
                           {[cand |-> ci, after |-> elapsed + graceWindow]}],
                        Evaluate(cands, ci + 1, dom))
    /\ Enter(Evaluate(cands, ci + 1, dom))
    /\ UNCHANGED <<lkMode, cands, dom>>
    /\ UNCHANGED <<wfVars, brVars, pgVars, lsVars, nbVars, gnVars, teVars, mdVars, wrVars, rtVars, fmVars, upVars, scVars, fsVars>>

\* The page changes its DOM to d. A childList mutation is delivered to the
\* observer installed with {childList: true, subtree: true}, whose callback
\* runs querySelector again; a change of attributes or text is not.
Mutate(d, childList) ==
    /\ phase \in {"idle", "polling", "grace"}
    /\ dom' = d
    /\ hist' = IF lkMode = "none" THEN hist
               ELSE [hist EXCEPT
                       !.ever = @ \cup d,
                       !.gone = @ \cup (dom \ d),
                       !.late = @ \cup {i \in d \ dom :
                                          i < ci \/ (i = ci /\ phase = "grace")},
                       !.early = @ \cup {i \in d : i = ci /\ phase = "polling"},
                       !.seen = @ \cup {i \in d : i = ci},
                       !.silent = IF childList THEN @ ELSE @ \cup (d \ dom)]
    /\ IF childList /\ lkMode = "appear" /\ phase = "grace" /\ ci \in d
         THEN /\ found' = ci
              /\ phase' = "resolved"
         ELSE UNCHANGED <<found, phase>>
    /\ UNCHANGED <<lkMode, cands, ci, elapsed, observers>>
    /\ UNCHANGED <<wfVars, brVars, pgVars, lsVars, nbVars, gnVars, teVars, mdVars, wrVars, rtVars, fmVars, upVars, scVars, fsVars>>

\* A node is inserted into the document.
DomInsert == \E i \in Nodes \ dom : Mutate(dom \cup {i}, TRUE)

\* A node is removed from the document.
DomRemove == \E i \in dom : Mutate(dom \ {i}, TRUE)

\* A node starts or stops matching by a change of its attributes or text.
DomAttr ==
    \E i \in Nodes : Mutate(IF i \in dom THEN dom \ {i} ELSE dom \cup {i}, FALSE)

\* waitForElementToDisappear(selector, 3000): the immediate check.
StartDisappear ==
    /\ phase \in {"idle", "resolved"}
    /\ lkMode' = "disappear"
    /\ cands' = << Wait(3000, disappearPoll) >>
    /\ ci' = 1
    /\ elapsed' = 0
    /\ observers' = 0
    /\ phase' = IF 1 \in dom THEN "polling" ELSE "resolved"
    /\ found' = IF 1 \in dom THEN -1 ELSE 0
    /\ hist' = [NoHist EXCEPT !.ever = dom]
    /\ UNCHANGED dom
    /\ UNCHANGED <<wfVars, brVars, pgVars, lsVars, nbVars, gnVars, teVars, mdVars, wrVars, rtVars, fmVars, upVars, scVars, fsVars>>

\* DisappearTick without the timeout check: it polls as long as the element
\* is there.
DisappearTickNoTimeout ==
    /\ lkMode = "disappear"
    /\ phase = "polling"
    /\ elapsed' = IF elapsed < cands[1].timeout THEN elapsed + cands[1].poll ELSE elapsed
    /\ phase' = IF 1 \notin dom THEN "resolved" ELSE "polling"
    /\ found' = IF 1 \notin dom THEN 0 ELSE -1
    /\ UNCHANGED <<lkMode, cands, ci, dom, observers, hist>>
    /\ UNCHANGED <<wfVars, brVars, pgVars, lsVars, nbVars, gnVars, teVars, mdVars, wrVars, rtVars, fmVars, upVars, scVars, fsVars>>

\* One tick of waitForElementToDisappear's setInterval: resolve when the
\* element is gone, and also when the timeout has passed.
DisappearTick ==
    /\ lkMode = "disappear"
    /\ phase = "polling"
    /\ elapsed' = elapsed + cands[1].poll
    /\ IF 1 \notin dom \/ elapsed + cands[1].poll >= cands[1].timeout
         THEN /\ phase' = "resolved"
              /\ found' = 0
         ELSE UNCHANGED <<phase, found>>
    /\ UNCHANGED <<lkMode, cands, ci, dom, observers, hist>>
    /\ UNCHANGED <<wfVars, brVars, pgVars, lsVars, nbVars, gnVars, teVars, mdVars, wrVars, rtVars, fmVars, upVars, scVars, fsVars>>

\* The timers of a lookup: they fire as long as the page lives.
TimerStep ==
    \/ PollTick
    \/ GraceEnd
    \/ DisappearTick

\* --------------------------------------------------------- NotebookLM lists

\* Names are sequences of characters, so that includes(), toLowerCase(),
\* trim() and replace(/\s+/g, ' ') are computed and not assumed.
Chapter1 == << "c", "h", "1" >>
Chapter10 == << "c", "h", "1", "0" >>
Chapter11 == << "c", "h", "1", "1" >>
CHAPTER1 == << "C", "h", "1" >>

\* The name NotebookLM gives to a pasted source or to new flashcards.
Untitled == << "P", "a", "s", "t", "e", "d" >>

\* popup.js: sourceName and chapterName are the selected chapter.
SourceNames == {Chapter1, Chapter10, Chapter11}
ChapterNames == {Chapter1, Chapter10}
NotebookNames == {Chapter1, Chapter10, CHAPTER1}

\* String.prototype.includes
Includes(a, b) ==
    \E k \in 0..(Len(a) - Len(b)) : SubSeq(a, k + 1, k + Len(b)) = b

\* String.prototype.toLowerCase
toLowerCase(a) ==
    [k \in 1..Len(a) |->
       CASE a[k] = "C" -> "c"
         [] a[k] = "P" -> "p"
         [] OTHER -> a[k]]

\* String.prototype.replace(/\s+/g, ' ')
RECURSIVE Squeeze(_)
Squeeze(a) ==
    IF Len(a) <= 1 THEN a
    ELSE IF a[1] = " " /\ a[2] = " " THEN Squeeze(Tail(a))
    ELSE << a[1] >> \o Squeeze(Tail(a))

\* name.toLowerCase().replace(/\s+/g, ' ')
Normalized(a) == Squeeze(toLowerCase(a))

\* if (nameToCheck === sourceName)
ExactMatch(nameToCheck, name) == nameToCheck = name

\* The second test of the loop over sourceItems: the name is included, in
\* either direction, raw and normalized.
PartialMatch(nameToCheck, name) ==
    /\ nameToCheck # << >>
    /\ Includes(nameToCheck, name) \/ Includes(name, nameToCheck)
    /\ \/ Includes(Normalized(nameToCheck), Normalized(name))
       \/ Includes(Normalized(name), Normalized(nameToCheck))

\* The loop over sourceItems: it breaks at the first item that passes either
\* test. 0 when no item does.
matchingSource(items, name) ==
    LET hits == {k \in 1..Len(items) :
                   ExactMatch(items[k].name, name) \/ PartialMatch(items[k].name, name)}
    IN IF hits = {} THEN 0 ELSE CHOOSE k \in hits : \A h \in hits : k <= h

\* openNotebookByName: the loop over projectButtons breaks at the first title
\* that is equal or that matches partially without regard to case; the
\* fallback looks for the name in the text of each button. 0 when none.
targetButton(titles, bookName) ==
    LET hits == {k \in 1..Len(titles) :
                   \/ titles[k] = bookName
                   \/ Includes(toLowerCase(titles[k]), toLowerCase(bookName))
                   \/ Includes(toLowerCase(bookName), toLowerCase(titles[k]))}
        byText == {k \in 1..Len(titles) : Includes(titles[k], bookName)}
    IN IF hits # {} THEN CHOOSE k \in hits : \A h \in hits : k <= h
       ELSE IF byText # {} THEN CHOOSE k \in byText : \A h \in byText : k <= h
       ELSE 0

\* The items of a list as they are when a page action starts: none of them
\* was created by it.
Old(items) == [k \in 1..Len(items) |-> [items[k] EXCEPT !.new = FALSE]]

RemoveAt(items, k) == SubSeq(items, 1, k - 1) \o SubSeq(items, k + 1, Len(items))

NoOpen == [name |-> << >>, title |-> << >>, hadExact |-> FALSE, created |-> FALSE]

NoDone == [name |-> << >>, clean |-> FALSE, flawless |-> TRUE]

NoJob ==
    [kind |-> "none", step |-> "idle", name |-> << >>, again |-> FALSE,
     hadExact |-> FALSE, matchName |-> << >>, created |-> FALSE,
     renamed |-> "none", clean |-> TRUE]

\* The content script runs in the NotebookLM home page.
OnHomePage == job = NoJob /\ sources = << >> /\ artifacts = << >> /\ opened = NoOpen

\* The content script runs in the page of a notebook.
OnNotebookPage == notebooks = << >> /\ opened = NoOpen

\* The user makes a notebook of their own on the NotebookLM home page.
UserCreatesNotebook ==
    /\ OnHomePage
    /\ Len(notebooks) < MaxNotebooks
    /\ \E t \in NotebookNames : notebooks' = Append(notebooks, t)
    /\ UNCHANGED <<sources, artifacts, opened, job, done>>
    /\ UNCHANGED <<wfVars, brVars, pgVars, lsVars, lcVars, gnVars, teVars, mdVars, wrVars, rtVars, fmVars, upVars, scVars, fsVars>>

\* openNotebookByName(bookName): the notebook found is opened; when none is
\* found a new one is created and given the name.
OpenNotebook ==
    /\ OnHomePage
    /\ notebooks # << >>
    /\ \E b \in NotebookNames :
         LET k == targetButton(notebooks, b) IN
         /\ opened' = [name |-> b,
                       title |-> IF k > 0 THEN notebooks[k] ELSE b,
                       hadExact |-> \E h \in 1..Len(notebooks) : notebooks[h] = b,
                       created |-> k = 0]
         /\ notebooks' = IF k > 0 THEN notebooks ELSE Append(notebooks, b)
    /\ UNCHANGED <<sources, artifacts, job, done>>
    /\ UNCHANGED <<wfVars, brVars, pgVars, lsVars, lcVars, gnVars, teVars, mdVars, wrVars, rtVars, fmVars, upVars, scVars, fsVars>>

\* handleNotebooklmExport, Step 0: the first source whose name matches is
\* removed through its More menu; when a button of the menu is not found the
\* source stays and the export goes on.
ExportStep0 ==
    /\ OnNotebookPage
    /\ job.step \in {"idle", "done"}
    /\ \E name \in SourceNames, removed \in BOOLEAN :
         LET m == matchingSource(sources, name) IN
         /\ removed \/ m > 0
         /\ sources' = Old(IF m > 0 /\ removed THEN RemoveAt(sources, m) ELSE sources)
         /\ job' = [kind |-> "export", step |-> "step0", name |-> name,
                    again |-> done.clean /\ done.name = name,
                    hadExact |-> \E k \in 1..Len(sources) : sources[k].name = name,
                    matchName |-> IF m > 0 THEN sources[m].name ELSE << >>,
                    created |-> FALSE, renamed |-> "none", clean |-> removed]
    /\ artifacts' = Old(artifacts)
    /\ UNCHANGED <<notebooks, opened, done>>
    /\ UNCHANGED <<wfVars, brVars, pgVars, lsVars, lcVars, gnVars, teVars, mdVars, wrVars, rtVars, fmVars, upVars, scVars, fsVars>>

\* handleNotebooklmExport, Steps 1 to 5: Add source, Copied text, paste,
\* Insert, close. The page adds the new source at the end of the list; or it
\* adds none (the notebook is full, the page refuses) and the code, which
\* waits for a second and does not look, goes on; or a required element is
\* missing and the action ends with an error.
ExportInsert ==
    /\ job.kind = "export"
    /\ job.step = "step0"
    /\ \E outcome \in {"created", "notCreated", "threw"} :
         /\ outcome = "created" => Len(sources) < MaxSources
         /\ sources' = IF outcome = "created"
                         THEN Append(sources, [name |-> Untitled, new |-> TRUE])
                         ELSE sources
         /\ job' = [job EXCEPT
                      !.step = IF outcome = "threw" THEN "done" ELSE "inserted",
                      !.created = outcome = "created",
                      !.clean = @ /\ outcome = "created"]
         /\ done' = IF outcome = "threw"
                      THEN [name |-> job.name, clean |-> FALSE, flawless |-> FALSE]
                      ELSE done
    /\ UNCHANGED <<artifacts, notebooks, opened>>
    /\ UNCHANGED <<wfVars, brVars, pgVars, lsVars, lcVars, gnVars, teVars, mdVars, wrVars, rtVars, fmVars, upVars, scVars, fsVars>>

\* handleNotebooklmExport, Step 6: the More button of the last source of the
\* list, Rename source, the name, Save. When a More button, the menu entry,
\* the input or Save is not found the name stays.
ExportRename ==
    /\ job.kind = "export"
    /\ job.step = "inserted"
    /\ \E ok \in BOOLEAN :
         /\ ok => Len(sources) > 0
         /\ sources' = IF ok THEN [sources EXCEPT ![Len(sources)].name = job.name]
                             ELSE sources
         /\ job' = [job EXCEPT !.step = "done",
                               !.renamed = IF ~ok THEN "none"
                                           ELSE IF sources[Len(sources)].new THEN "new"
                                           ELSE "old",
                               !.clean = @ /\ ok]
         /\ done' = [name |-> job.name, clean |-> job.clean /\ ok,
                      flawless |-> done.flawless /\ job.clean /\ ok]
    /\ UNCHANGED <<artifacts, notebooks, opened>>
    /\ UNCHANGED <<wfVars, brVars, pgVars, lsVars, lcVars, gnVars, teVars, mdVars, wrVars, rtVars, fmVars, upVars, scVars, fsVars>>

\* handleCreateFlashcards: Create flashcards is clicked and
\* waitForFlashcardGeneration returns: the new artifact is the first of the
\* library, or there is none (generation failed, or the text Generating
\* Flashcards was not there when looked for).
FlashCreate ==
    /\ OnNotebookPage
    /\ job.step \in {"idle", "done"}
    /\ \E name \in ChapterNames, outcome \in {"created", "notCreated"} :
         /\ outcome = "created" => Len(artifacts) < MaxArtifacts
         /\ artifacts' = IF outcome = "created"
                           THEN << [name |-> Untitled, new |-> TRUE] >> \o Old(artifacts)
                           ELSE Old(artifacts)
         /\ job' = [kind |-> "flash", step |-> "inserted", name |-> name,
                    again |-> FALSE, hadExact |-> FALSE, matchName |-> << >>,
                    created |-> outcome = "created",
                    renamed |-> "none", clean |-> outcome = "created"]
    /\ sources' = Old(sources)
    /\ UNCHANGED <<notebooks, opened, done>>
    /\ UNCHANGED <<wfVars, brVars, pgVars, lsVars, lcVars, gnVars, teVars, mdVars, wrVars, rtVars, fmVars, upVars, scVars, fsVars>>

\* renameFlashcard: artifact-library-item:nth-of-type(1), More, Rename, the
\* name, Save; an element that is not found ends the rename with an error
\* that handleCreateFlashcards reports as a success.
FlashRename ==
    /\ job.kind = "flash"
    /\ job.step = "inserted"
    /\ \E ok \in BOOLEAN :
         /\ ok => Len(artifacts) > 0
         /\ artifacts' = IF ok THEN [artifacts EXCEPT ![1].name = job.name]
                               ELSE artifacts
         /\ job' = [job EXCEPT !.step = "done",
                               !.renamed = IF ~ok THEN "none"
                                           ELSE IF artifacts[1].new THEN "new"
                                           ELSE "old",
                               !.clean = @ /\ ok]
    /\ UNCHANGED <<sources, notebooks, opened, done>>
    /\ UNCHANGED <<wfVars, brVars, pgVars, lsVars, lcVars, gnVars, teVars, mdVars, wrVars, rtVars, fmVars, upVars, scVars, fsVars>>

\* ------------------------------------------------------ flashcard generation

\* The milliseconds the two waitForElement calls for the studio panel can
\* take between startTime = Date.now() and the start of the polling: found at
\* once, found by the fallback selector, found by neither.
PanelLookups == {0, 6000, 10000}

NoGen ==
    [phase |-> "idle", offset |-> 0, since |-> 0, marker |-> FALSE,
     goneAt |-> 0, success |-> FALSE, message |-> "none", seen |-> FALSE]

\* waitForFlashcardGeneration up to `return new Promise`: the studio panel is
\* looked up and the interval and the first check are armed. The text
\* Generating Flashcards is in the panel or not.
StartGeneration ==
    /\ gen.phase = "idle"
    /\ \E o \in PanelLookups, m \in BOOLEAN :
         gen' = [NoGen EXCEPT !.phase = "armed", !.offset = o, !.marker = m, !.seen = m]
    /\ UNCHANGED <<wfVars, brVars, pgVars, lsVars, lcVars, nbVars, teVars, mdVars, wrVars, rtVars, fmVars, upVars, scVars, fsVars>>

\* The check armed with setTimeout(..., 100): without the text the wait is over.
FirstCheck ==
    /\ gen.phase = "armed"
    /\ gen' = [gen EXCEPT !.since = firstCheck,
                          !.phase = IF gen.marker THEN "polling" ELSE "resolved"]
    /\ UNCHANGED <<wfVars, brVars, pgVars, lsVars, lcVars, nbVars, teVars, mdVars, wrVars, rtVars, fmVars, upVars, scVars, fsVars>>

\* The milliseconds since the promise was made at the tick after those of t.
NextTick(t) == ((t \div pollInterval) + 1) * pollInterval

\* GenTick that does not look for the text and only ends at maxWaitTime.
GenTickIgnoresMarker ==
    /\ gen.phase = "polling"
    /\ gen' = [gen EXCEPT
                 !.since = NextTick(gen.since),
                 !.phase = IF gen.offset + NextTick(gen.since) >= maxWaitTime
                             THEN "resolved" ELSE "polling"]
    /\ UNCHANGED <<wfVars, brVars, pgVars, lsVars, lcVars, nbVars, teVars, mdVars, wrVars, rtVars, fmVars, upVars, scVars, fsVars>>

\* GenTick without the timeout check.
GenTickNoTimeout ==
    /\ gen.phase = "polling"
    /\ gen' = [gen EXCEPT
                 !.since = IF gen.since > maxWaitTime + pollInterval
                             THEN gen.since ELSE NextTick(gen.since),
                 !.phase = IF ~gen.marker THEN "resolved" ELSE "polling"]
    /\ UNCHANGED <<wfVars, brVars, pgVars, lsVars, lcVars, nbVars, teVars, mdVars, wrVars, rtVars, fmVars, upVars, scVars, fsVars>>

\* One tick of checkInterval: without the text generation is complete; with
\* it, maxWaitTime after startTime the wait resolves all the same.
GenTick ==
    /\ gen.phase = "polling"
    /\ gen' = [gen EXCEPT
                 !.since = NextTick(gen.since),
                 !.phase = IF ~gen.marker THEN "resolved"
                           ELSE IF gen.offset + NextTick(gen.since) >= maxWaitTime
                             THEN "resolved"
                           ELSE "polling"]
    /\ UNCHANGED <<wfVars, brVars, pgVars, lsVars, lcVars, nbVars, teVars, mdVars, wrVars, rtVars, fmVars, upVars, scVars, fsVars>>

\* NotebookLM takes the text Generating Flashcards away.
MarkerRemoved ==
    /\ gen.phase \in {"armed", "polling"}
    /\ gen.marker
    /\ gen' = [gen EXCEPT !.marker = FALSE, !.goneAt = gen.since]
    /\ UNCHANGED <<wfVars, brVars, pgVars, lsVars, lcVars, nbVars, teVars, mdVars, wrVars, rtVars, fmVars, upVars, scVars, fsVars>>

\* NotebookLM shows the text Generating Flashcards, be it during the wait
\* or when the wait is already over.
MarkerShown ==
    /\ gen.phase \in {"armed", "polling", "resolved"}
    /\ ~gen.marker
    /\ gen' = [gen EXCEPT !.marker = TRUE, !.seen = TRUE]
    /\ UNCHANGED <<wfVars, brVars, pgVars, lsVars, lcVars, nbVars, teVars, mdVars, wrVars, rtVars, fmVars, upVars, scVars, fsVars>>

\* handleCreateFlashcards, Step 3 and the return: without a chapterName, with
\* the flashcard renamed, with renameFlashcard returning success false, with
\* renameFlashcard throwing: each returns success true with its own message.
FinishFlash ==
    /\ gen.phase = "resolved"
    /\ \E rename \in {"none", "renamed", "failed", "threw"} :
         gen' = [gen EXCEPT !.phase = "finished",
                            !.success = TRUE,
                            !.message = rename]
    /\ UNCHANGED <<wfVars, brVars, pgVars, lsVars, lcVars, nbVars, teVars, mdVars, wrVars, rtVars, fmVars, upVars, scVars, fsVars>>

\* The action is asked for again.
GenAgain ==
    /\ gen.phase = "finished"
    /\ gen' = NoGen
    /\ UNCHANGED <<wfVars, brVars, pgVars, lsVars, lcVars, nbVars, teVars, mdVars, wrVars, rtVars, fmVars, upVars, scVars, fsVars>>

\* The timers and the continuation of the generation wait.
GenStep ==
    \/ FirstCheck
    \/ GenTick
    \/ FinishFlash

\* ----------------------------------------------------------------- text entry

\* The fields the page actions enter text into.
Fields == {"textarea", "sourceName", "notebookTitle", "flashcardName", "geminiPrompt"}

\* What each text-entry step does after it has set the value and dispatched
\* the events: "compare" re-reads the value and compares it with the text,
\* "empty" re-reads it and only looks whether it is empty, "none" reads
\* nothing.
Reread(field) ==
    CASE field = "textarea" -> "none"
      [] field = "sourceName" -> "compare"
      [] field = "notebookTitle" -> "compare"
      [] field = "flashcardName" -> "none"
      [] field = "geminiPrompt" -> "empty"

\* The texts entered and the texts a field holds before.
Texts == {<< "a" >>, << "a", "b" >>}
OldTexts == {<< >>, << "o" >>}

NoEntry ==
    [phase |-> "idle", field |-> "none", text |-> << >>, value |-> << >>,
     bulk |-> TRUE, keys |-> TRUE, ops |-> << >>, differed |-> FALSE]

\* A text-entry step starts on a field. The framework behind the field takes
\* an assignment of the whole value or ignores it (bulk), and takes a value
\* built up character by character or not (keys).
StartEntry ==
    /\ entry.phase \in {"idle", "done"}
    /\ \E f \in Fields, t \in Texts, o \in OldTexts, b \in BOOLEAN, k \in BOOLEAN :
         entry' = [phase |-> "set", field |-> f, text |-> t, value |-> o,
                   bulk |-> b, keys |-> k, ops |-> << >>, differed |-> FALSE]
    /\ UNCHANGED <<wfVars, brVars, pgVars, lsVars, lcVars, nbVars, gnVars, mdVars, wrVars, rtVars, fmVars, upVars, scVars, fsVars>>

\* The value is set as a whole (native setter, .value, textContent) and the
\* input and change events are dispatched.
EntrySet ==
    /\ entry.phase = "set"
    /\ entry' = [entry EXCEPT
                   !.value = IF entry.bulk THEN entry.text ELSE @,
                   !.ops = Append(@, "set"),
                   !.differed = ~entry.bulk,
                   !.phase = IF Reread(entry.field) = "none" THEN "done" ELSE "reread"]
    /\ UNCHANGED <<wfVars, brVars, pgVars, lsVars, lcVars, nbVars, gnVars, mdVars, wrVars, rtVars, fmVars, upVars, scVars, fsVars>>

\* for (i < text.length) value += text[i]: the value after the loop.
RECURSIVE TypeChars(_, _)
TypeChars(value, text) ==
    IF text = << >> THEN value ELSE TypeChars(Append(value, Head(text)), Tail(text))

\* The value is read back. Source name and notebook title: when it is not
\* the text, the field is emptied and the text is entered character by
\* character. Gemini prompt: only when the field is empty the text is
\* assigned once more as a whole (innerText).
EntryReread ==
    /\ entry.phase = "reread"
    /\ entry' =
         IF Reread(entry.field) = "compare"
           THEN IF entry.value # entry.text /\ Len(entry.text) > 0
                  THEN [entry EXCEPT
                          !.value = IF entry.keys THEN TypeChars(<< >>, entry.text) ELSE @,
                          !.ops = @ \o << "reread", "type" >>,
                          !.phase = "done"]
                  ELSE [entry EXCEPT !.ops = Append(@, "reread"), !.phase = "done"]
           ELSE IF entry.value = << >>
                  THEN [entry EXCEPT
                          !.value = IF entry.bulk THEN entry.text ELSE @,
                          !.ops = @ \o << "reread", "set" >>,
                          !.phase = "done"]
                  ELSE [entry EXCEPT !.ops = Append(@, "reread"), !.phase = "done"]
    /\ UNCHANGED <<wfVars, brVars, pgVars, lsVars, lcVars, nbVars, gnVars, mdVars, wrVars, rtVars, fmVars, upVars, scVars, fsVars>>

\* ----------------------------------------------------------- specification

\* ------------------------------------------------------------ Markdown text

\* Text is a sequence of characters; a line break is the character "\n".
IsSpace(c) == c \in {" ", "\n"}

\* The lines of the claimed example text.
ChapterLine == << "#", "#", " ", "C", "h", "a", "p", "t", "e", "r", " ", "1" >>
IntroLine == << "#", "#", "#", " ", "I", "n", "t", "r", "o" >>
HelloLine == << "H", "e", "l", "l", "o", " ", "w", "o", "r", "l", "d" >>

\* Array.prototype.join('\n')
RECURSIVE join(_)
join(ls) ==
    IF Len(ls) = 0 THEN << >>
    ELSE IF Len(ls) = 1 THEN ls[1]
    ELSE ls[1] \o << "\n" >> \o join(Tail(ls))

\* String.prototype.split('\n'): one line more than there are line breaks.
RECURSIVE split(_)
split(a) ==
    IF \A k \in 1..Len(a) : a[k] # "\n" THEN << a >>
    ELSE LET k == CHOOSE j \in 1..Len(a) : a[j] = "\n" /\ \A h \in 1..(j - 1) : a[h] # "\n"
         IN  << SubSeq(a, 1, k - 1) >> \o split(SubSeq(a, k + 1, Len(a)))

RECURSIVE trimStart(_)
trimStart(a) == IF Len(a) > 0 /\ IsSpace(a[1]) THEN trimStart(Tail(a)) ELSE a

RECURSIVE trimEnd(_)
trimEnd(a) ==
    IF Len(a) > 0 /\ IsSpace(a[Len(a)]) THEN trimEnd(SubSeq(a, 1, Len(a) - 1)) ELSE a

\* String.prototype.trim
trim(a) == trimEnd(trimStart(a))

\* String.prototype.startsWith
startsWith(a, p) == Len(a) >= Len(p) /\ SubSeq(a, 1, Len(p)) = p

\* String.prototype.substring(k)
substring(a, k) == SubSeq(a, k + 1, Len(a))

\* line.match(/^##\s+.+$/): two hashes, white space, and at least one more
\* character of any kind.
IsChapterHeading(line) ==
    /\ Len(line) >= 4
    /\ startsWith(line, << "#", "#" >>)
    /\ IsSpace(line[3])

\* line.match(/^###\s+.+$/)
IsSectionHeading(line) ==
    /\ Len(line) >= 5
    /\ startsWith(line, << "#", "#", "#" >>)
    /\ IsSpace(line[4])

\* line.replace(/^###\s+/, ''): the hashes and all the white space after them.
SectionTitle(line) == trimStart(substring(line, 3))

\* The lines that the texts given to the section splitting are made of.
SplitPool == {ChapterLine, << >>, IntroLine, HelloLine}

MaxSplitLines == 6

\* highlightsText of processHighlightsWithGemini.
SplitInputs ==
    {join(ls) : ls \in UNION {[1..n -> SplitPool] : n \in 1..MaxSplitLines}}

\* The lines that the texts given to convertMarkdownToNotionBlocks are made of:
\* headings, a paragraph, an empty and a blank line, an indented heading, and
\* heading marks with nothing after them.
ConvertPool ==
    {<< "#", "#", " ", "x" >>, << "#", "#", "#", " ", "y" >>, << "p" >>, << >>, << " " >>,
     << " ", "#", "#", " ", "x" >>, << "#", "#", " " >>, << "#", "#", "#", " " >>}

MaxConvertLines == 3

\* markdown of convertMarkdownToNotionBlocks.
ConvertInputs ==
    {join(ls) : ls \in UNION {[1..n -> ConvertPool] : n \in 0..MaxConvertLines}}

\* null is the empty sequence, a string s is << s >>.
null == << >>

NoSection == [title |-> null, content |-> << >>]

NoMd ==
    [fn |-> "none", phase |-> "idle", text |-> << >>, lines |-> << >>, i |-> 0,
     sections |-> << >>, currentSection |-> NoSection, chapterHeading |-> null,
     blocks |-> << >>, thrown |-> FALSE,
     processed |-> << >>, failedSections |-> {}, callFailed |-> FALSE,
     result |-> << >>, stored |-> null]

\* processHighlightsWithGemini is called with a key: a blank text throws, any
\* other text is split into lines.
StartSplit ==
    /\ md.phase = "idle"
    /\ \E text \in SplitInputs :
         md' = IF trim(text) = << >>
                 THEN [NoMd EXCEPT !.fn = "split", !.phase = "done", !.text = text,
                                   !.thrown = TRUE]
                 ELSE [NoMd EXCEPT !.fn = "split", !.phase = "loop", !.text = text,
                                   !.lines = split(text), !.i = 1]
    /\ UNCHANGED <<wfVars, brVars, pgVars, lsVars, lcVars, nbVars, gnVars, teVars, wrVars, rtVars, fmVars, upVars, scVars, fsVars>>

\* sections.push({title, content: content.join('\n').trim()}) when the current
\* section has a title or at least one line.
Pushed(sections, cs) ==
    IF cs.title # null \/ Len(cs.content) > 0
      THEN Append(sections, [title |-> cs.title, content |-> trim(join(cs.content))])
      ELSE sections

\* One turn of the loop over the lines.
SplitLine ==
    /\ md.fn = "split"
    /\ md.phase = "loop"
    /\ md.i <= Len(md.lines)
    /\ LET line == md.lines[md.i] IN
         md' = IF IsChapterHeading(line)
                 THEN [md EXCEPT !.chapterHeading = << line >>, !.i = md.i + 1]
               ELSE IF IsSectionHeading(line)
                 THEN [md EXCEPT !.sections = Pushed(md.sections, md.currentSection),
                                 !.currentSection = [title |-> << SectionTitle(line) >>,
                                                     content |-> << >>],
                                 !.i = md.i + 1]
               ELSE [md EXCEPT !.currentSection.content = Append(@, line),
                               !.i = md.i + 1]
    /\ UNCHANGED <<wfVars, brVars, pgVars, lsVars, lcVars, nbVars, gnVars, teVars, wrVars, rtVars, fmVars, upVars, scVars, fsVars>>

\* After the loop: the last section is pushed, and a text without any section
\* becomes one section without title.
SplitEnd ==
    /\ md.fn = "split"
    /\ md.phase = "loop"
    /\ md.i > Len(md.lines)
    /\ LET all == Pushed(md.sections, md.currentSection) IN
         md' = [md EXCEPT !.sections = IF Len(all) = 0
                                         THEN << [title |-> null, content |-> trim(md.text)] >>
                                         ELSE all,
                          !.phase = "done"]
    /\ UNCHANGED <<wfVars, brVars, pgVars, lsVars, lcVars, nbVars, gnVars, teVars, wrVars, rtVars, fmVars, upVars, scVars, fsVars>>

\* The loop over the sections begins.
StartRewrite ==
    /\ md.fn = "split"
    /\ md.phase = "done"
    /\ ~md.thrown
    /\ md' = [md EXCEPT !.phase = "rewrite", !.i = 1]
    /\ UNCHANGED <<wfVars, brVars, pgVars, lsVars, lcVars, nbVars, gnVars, teVars, wrVars, rtVars, fmVars, upVars, scVars, fsVars>>

\* What stands for the text that Gemini makes of a section.
Rewritten(content) == << "*" >> \o content

\* The section that is pushed for an outcome of processSingleSection: its
\* text, an empty text, or an error.
SectionAfter(sec, outcome) ==
    [title |-> sec.title,
     content |-> CASE outcome = "rewritten" -> Rewritten(sec.content)
                   [] outcome = "empty"     -> << >>
                   [] outcome = "failed"    -> sec.content]

\* RewriteSection with a catch that pushes nothing for a section whose
\* rewrite failed.
RewriteSectionDropsFailed ==
    /\ md.fn = "split"
    /\ md.phase = "rewrite"
    /\ md.i <= Len(md.sections)
    /\ LET sec == md.sections[md.i] IN
         IF sec.content = << >>
           THEN md' = [md EXCEPT !.i = md.i + 1]
           ELSE \E outcome \in {"rewritten", "empty", "failed"} :
                  md' = [md EXCEPT
                     !.processed = IF outcome = "failed" THEN @
                                   ELSE Append(@, SectionAfter(sec, outcome)),
                     !.failedSections = IF outcome = "failed" THEN @ \cup {md.i} ELSE @,
                     !.i = md.i + 1]
    /\ UNCHANGED <<wfVars, brVars, pgVars, lsVars, lcVars, nbVars, gnVars, teVars, wrVars, rtVars, fmVars, upVars, scVars, fsVars>>

\* One turn of the loop over the sections: a section without content is
\* passed over; else processSingleSection is awaited and its text is pushed
\* under the section's title, or, when it threw, the section's own content.
RewriteSection ==
    /\ md.fn = "split"
    /\ md.phase = "rewrite"
    /\ md.i <= Len(md.sections)
    /\ LET sec == md.sections[md.i] IN
         IF sec.content = << >>
           THEN md' = [md EXCEPT !.i = md.i + 1]
           ELSE \E outcome \in {"rewritten", "empty", "failed"} :
                  md' = [md EXCEPT
                     !.processed = Append(@, SectionAfter(sec, outcome)),
                     !.failedSections = IF outcome = "failed" THEN @ \cup {md.i} ELSE @,
                     !.i = md.i + 1]
    /\ UNCHANGED <<wfVars, brVars, pgVars, lsVars, lcVars, nbVars, gnVars, teVars, wrVars, rtVars, fmVars, upVars, scVars, fsVars>>

\* An error leaves processHighlightsWithGemini (anything outside the catch of
\* a section): the catch of processKindleHighlights takes it.
RewriteThrows ==
    /\ md.fn = "split"
    /\ md.phase = "rewrite"
    /\ md' = [md EXCEPT !.callFailed = TRUE, !.phase = "returned"]
    /\ UNCHANGED <<wfVars, brVars, pgVars, lsVars, lcVars, nbVars, gnVars, teVars, wrVars, rtVars, fmVars, upVars, scVars, fsVars>>

\* result += `### ${title}\n\n` if there is a title, + content + '\n\n' if
\* there is content, for each processed section.
RECURSIVE Combined(_)
Combined(secs) ==
    IF Len(secs) = 0 THEN << >>
    ELSE (IF secs[1].title # null /\ secs[1].title[1] # << >>
            THEN << "#", "#", "#", " " >> \o secs[1].title[1] \o << "\n", "\n" >>
            ELSE << >>)
         \o (IF secs[1].content # << >> THEN secs[1].content \o << "\n", "\n" >> ELSE << >>)
         \o Combined(Tail(secs))

\* The chapter heading, the processed sections, and the trim at the return.
Combine ==
    /\ md.fn = "split"
    /\ md.phase = "rewrite"
    /\ md.i > Len(md.sections)
    /\ md' = [md EXCEPT
          !.result = trim((IF md.chapterHeading # null
                             THEN md.chapterHeading[1] \o << "\n", "\n" >> ELSE << >>)
                          \o Combined(md.processed)),
          !.phase = "returned"]
    /\ UNCHANGED <<wfVars, brVars, pgVars, lsVars, lcVars, nbVars, gnVars, teVars, wrVars, rtVars, fmVars, upVars, scVars, fsVars>>

\* processKindleHighlights after the call: processedContent is what the call
\* returned, or still the extracted highlights when the call threw;
\* saveProcessedContent(processedContent).
StoreProcessed ==
    /\ md.fn = "split"
    /\ md.phase = "returned"
    /\ md' = [md EXCEPT !.stored = IF md.callFailed THEN << md.text >> ELSE << md.result >>,
                        !.phase = "stored"]
    /\ UNCHANGED <<wfVars, brVars, pgVars, lsVars, lcVars, nbVars, gnVars, teVars, wrVars, rtVars, fmVars, upVars, scVars, fsVars>>

\* convertMarkdownToNotionBlocks is called with a string.
StartConvert ==
    /\ md.phase = "idle"
    /\ \E markdown \in ConvertInputs :
         md' = [NoMd EXCEPT !.fn = "convert", !.phase = "loop", !.text = markdown,
                            !.lines = split(markdown), !.i = 1]
    /\ UNCHANGED <<wfVars, brVars, pgVars, lsVars, lcVars, nbVars, gnVars, teVars, wrVars, rtVars, fmVars, upVars, scVars, fsVars>>

\* The blocks that one line adds: the line is trimmed, then tested for "## ",
\* for "### " and for being empty.
BlocksOfTrimmed(line) ==
    IF startsWith(line, << "#", "#", " " >>)
      THEN << [type |-> "heading_2", content |-> substring(line, 3)] >>
    ELSE IF startsWith(line, << "#", "#", "#", " " >>)
      THEN << [type |-> "heading_3", content |-> substring(line, 4)] >>
    ELSE IF Len(line) > 0
      THEN << [type |-> "paragraph", content |-> line] >>
    ELSE << >>

\* BlocksOfLine with a paragraph for every line that is no heading, blank or not.
BlocksOfLineKeepsBlank(raw) ==
    IF BlocksOfTrimmed(trim(raw)) = << >>
      THEN << [type |-> "paragraph", content |-> trim(raw)] >>
      ELSE BlocksOfTrimmed(trim(raw))

\* const line = lines[i].trim(); and the three branches.
BlocksOfLine(raw) == BlocksOfTrimmed(trim(raw))

\* One turn of the loop over the lines.
ConvertLine ==
    /\ md.fn = "convert"
    /\ md.phase = "loop"
    /\ md.i <= Len(md.lines)
    /\ md' = [md EXCEPT !.blocks = @ \o BlocksOfLine(md.lines[md.i]), !.i = md.i + 1]
    /\ UNCHANGED <<wfVars, brVars, pgVars, lsVars, lcVars, nbVars, gnVars, teVars, wrVars, rtVars, fmVars, upVars, scVars, fsVars>>

\* return blocks
ConvertEnd ==
    /\ md.fn = "convert"
    /\ md.phase = "loop"
    /\ md.i > Len(md.lines)
    /\ md' = [md EXCEPT !.phase = "done"]
    /\ UNCHANGED <<wfVars, brVars, pgVars, lsVars, lcVars, nbVars, gnVars, teVars, wrVars, rtVars, fmVars, upVars, scVars, fsVars>>

\* -------------------------------------------------------------- retry loops

\* while (moreButtons.length === 0 && attempts < 10), 300 ms a turn
maxMoreAttempts == 10
morePollDelay == 300

\* renameGeminiConversation: the More button of the first conversation is
\* looked for during maxWaitTime = 15000 ms, every pollInterval = 500 ms.
renameMaxWaitTime == 15000
renamePollInterval == 500

\* The optional steps that poll in a loop of their own, and the loop's kind.
RetrySteps == {"renameSource", "renameGeminiConversation"}

LoopOf(name) == IF name = "renameSource" THEN "attempts" ELSE "deadline"

\* The longest a loop can take.
LoopLimit(loop) ==
    IF loop = "attempts" THEN maxMoreAttempts * morePollDelay ELSE renameMaxWaitTime

\* A rename step reaches its loop: the first query for the More button. For
\* the source rename the loop is entered only when the first query found
\* nothing; renameGeminiConversation makes its first query inside the loop.
StartRetry ==
    /\ AtStep("optional")
    /\ CurStep.name \in RetrySteps
    /\ ArgGiven(CurStep.arg)
    /\ retry.phase = "none"
    /\ \E present \in BOOLEAN :
         retry' = [phase |-> IF present THEN "ended" ELSE "looping",
                   loop |-> LoopOf(CurStep.name), attempts |-> 0, elapsed |-> 0,
                   button |-> present]
    /\ UNCHANGED pgVars
    /\ UNCHANGED <<wfVars, brVars, lsVars, lcVars, nbVars, gnVars, teVars, mdVars, wrVars, fmVars, upVars, scVars, fsVars>>

\* Whether the loop goes on after a turn that found nothing.
GoesOn(loop, n, t) ==
    IF loop = "attempts" THEN n < maxMoreAttempts ELSE t < renameMaxWaitTime

\* RetryTick with a loop condition that only tests the button.
RetryTickNoLimit ==
    /\ retry.phase = "looping"
    /\ \E present \in BOOLEAN :
         retry' = [retry EXCEPT
            !.attempts = IF @ <= maxMoreAttempts + 1 THEN @ + 1 ELSE @,
            !.elapsed = IF @ <= LoopLimit(retry.loop) THEN @ + morePollDelay ELSE @,
            !.button = present,
            !.phase = IF present THEN "ended" ELSE "looping"]
    /\ UNCHANGED pgVars
    /\ UNCHANGED <<wfVars, brVars, lsVars, lcVars, nbVars, gnVars, teVars, mdVars, wrVars, fmVars, upVars, scVars, fsVars>>

\* One turn of the loop: the delay, then the query; the loop ends when the
\* button is there, at the attempt limit, or when the time is up.
RetryTick ==
    /\ retry.phase = "looping"
    /\ \E present \in BOOLEAN :
         LET delay == IF retry.loop = "attempts" THEN morePollDelay ELSE renamePollInterval
             a == retry.attempts + 1
             e == retry.elapsed + delay
         IN  retry' = [retry EXCEPT
                !.attempts = a,
                !.elapsed = e,
                !.button = present,
                !.phase = IF present \/ ~GoesOn(retry.loop, a, e) THEN "ended" ELSE "looping"]
    /\ UNCHANGED pgVars
    /\ UNCHANGED <<wfVars, brVars, lsVars, lcVars, nbVars, gnVars, teVars, mdVars, wrVars, fmVars, upVars, scVars, fsVars>>

\* After the loop: without a button the step has failed (a warning, or an error
\* that renameGeminiConversation catches and returns); with it the rest of the
\* rename is done or fails. The action goes on in each case.
RetryEnd ==
    /\ retry.phase = "ended"
    /\ \E rest \in BOOLEAN :
         LET ok == retry.button /\ rest IN
           /\ performed' = IF ok THEN Append(performed, CurStep.name) ELSE performed
           /\ failed' = IF ok THEN failed ELSE failed \cup {CurStep.name}
    /\ pstep' = pstep + 1
    /\ retry' = [retry EXCEPT !.phase = "done"]
    /\ UNCHANGED <<script, sourceName, chapterName, thrown, response, message>>
    /\ UNCHANGED <<wfVars, brVars, lsVars, lcVars, nbVars, gnVars, teVars, mdVars, wrVars, fmVars, upVars, scVars, fsVars>>

vars == <<checked, pc, btnDisabled, runs, runSel, toggles, result, errShown,
          status, completedList, aborted, stored, notionReqs, activeTab,
          cur, tab, attempts, chan, sends, pageBusy,
          script, sourceName, chapterName, pstep, performed, failed, thrown,
          response, message, requests,
          lkMode, cands, ci, phase, elapsed, dom, found, observers, hist,
          sources, artifacts, notebooks, opened, job, done,
          gen,
          entry,
          md,
          wire,
          retry,
          form,
          upload,
          selection,
          fileSel>>

\* ------------------------------------- source selection for flashcards
\* Step 1 of handleCreateFlashcards. A checkbox of the source panel is its
\* source's title (which is also the text of its aria-label) and whether it
\* is checked.

MaxBoxes == 3

BoxTitles == {Chapter1, Chapter10, Untitled}

BoxLists ==
    UNION {[1..n -> [title : BoxTitles, checked : BOOLEAN]] : n \in 0..MaxBoxes}

NoSelection == [phase |-> "idle", name |-> << >>, boxes |-> << >>, k |-> 0, target |-> 0]

\* checkbox.click()
Clicked(boxes, k) == [boxes EXCEPT ![k].checked = ~@]

\* ariaLabel.trim() === sourceName || ariaLabel.includes(sourceName); the
\* test of the container's title (method 2) is the same test on the title.
LabelMatches(title, name) == trim(title) = name \/ Includes(title, name)

\* The checkbox that step 1 checks: the first whose label matches, else the
\* last of the list, 0 when the list is empty.
TargetOf(boxes, name) ==
    LET hits == {k \in 1..Len(boxes) : LabelMatches(boxes[k].title, name)} IN
      IF hits # {} THEN CHOOSE k \in hits : \A h \in hits : k <= h
      ELSE Len(boxes)

\* handleCreateFlashcards is called with a source name; the source panel is there.
StartSelect ==
    /\ selection.phase = "idle"
    /\ \E name \in {Chapter1, Chapter10}, bx \in BoxLists :
         selection' = [NoSelection EXCEPT !.phase = "uncheck", !.name = name,
                                          !.boxes = bx, !.k = 1]
    /\ UNCHANGED <<wfVars, brVars, pgVars, lsVars, lcVars, nbVars, gnVars, teVars, mdVars, wrVars, rtVars, fmVars, upVars, fsVars>>

\* One turn of "uncheck all checkboxes first".
UncheckBox ==
    /\ selection.phase = "uncheck"
    /\ selection.k <= Len(selection.boxes)
    /\ selection' = [selection EXCEPT
          !.boxes = IF @[selection.k].checked THEN Clicked(@, selection.k) ELSE @,
          !.k = @ + 1]
    /\ UNCHANGED <<wfVars, brVars, pgVars, lsVars, lcVars, nbVars, gnVars, teVars, mdVars, wrVars, rtVars, fmVars, upVars, fsVars>>

\* The target is looked for and clicked unless it is checked.
CheckTarget ==
    /\ selection.phase = "uncheck"
    /\ selection.k > Len(selection.boxes)
    /\ LET t == TargetOf(selection.boxes, selection.name) IN
         selection' = [selection EXCEPT
            !.target = t,
            !.boxes = IF t > 0 /\ ~@[t].checked THEN Clicked(@, t) ELSE @,
            !.phase = "done"]
    /\ UNCHANGED <<wfVars, brVars, pgVars, lsVars, lcVars, nbVars, gnVars, teVars, mdVars, wrVars, rtVars, fmVars, upVars, fsVars>>

\* ------------------------------------ Kindle file and chapter selection
\* handleFileSelection and handleChapterSelection of the popup. A file is
\* known by a name; the chapters that extractChapters finds in it are a list.

KindleFiles == {"bookA", "bookB", "empty"}

\* extractChapters(fileContent)
ChaptersOf(f) ==
    CASE f = "bookA" -> << "one", "two" >>
      [] f = "bookB" -> << "two", "three" >>
      [] OTHER       -> << >>

\* chapters.includes(chapter)
includes(chapters, chapter) == \E k \in 1..Len(chapters) : chapters[k] = chapter

\* The popup as it opens with nothing stored: no cached content, the
\* dropdown with its empty option only, the chapter group not shown.
NoFileSel ==
    [input |-> "", cached |-> "", chaptersList |-> << >>, options |-> << >>,
     value |-> "", shown |-> FALSE, saved |-> "", reading |-> {}, status0 |-> "none"]

\* A value that stays whatever the new file holds.
RestoredValueKeeps(previous, chapters) == previous

\* The value of the dropdown after it was filled with the new chapters:
\* the previous one if the new file has it, else the empty one.
RestoredValue(previous, chapters) ==
    IF previous # "" /\ includes(chapters, previous) THEN previous ELSE ""

\* The change event with no file: the cache and the chapters are dropped,
\* the dropdown is emptied and hidden.
SelectNoFile ==
    /\ fileSel' = [fileSel EXCEPT !.input = "", !.cached = "", !.chaptersList = << >>,
                                  !.options = << >>, !.value = "", !.shown = FALSE]
    /\ UNCHANGED <<wfVars, brVars, pgVars, lsVars, lcVars, nbVars, gnVars, teVars, mdVars, wrVars, rtVars, fmVars, upVars, scVars>>

\* A file whose name does not end in .html or .htm: an error status, the
\* input is cleared, nothing else.
SelectInvalidFile ==
    /\ fileSel' = [fileSel EXCEPT !.input = "", !.status0 = "not-html"]
    /\ UNCHANGED <<wfVars, brVars, pgVars, lsVars, lcVars, nbVars, gnVars, teVars, mdVars, wrVars, rtVars, fmVars, upVars, scVars>>

\* An HTML file: its name is shown and readFileAsText is awaited.
SelectFile ==
    /\ \E f \in KindleFiles :
         fileSel' = [fileSel EXCEPT !.input = f, !.reading = @ \cup {f}, !.status0 = "loading"]
    /\ UNCHANGED <<wfVars, brVars, pgVars, lsVars, lcVars, nbVars, gnVars, teVars, mdVars, wrVars, rtVars, fmVars, upVars, scVars>>

\* The read of a file resolves: the content is cached, the chapters are
\* extracted; with chapters the dropdown is filled anew, the previous value
\* restored or cleared, and the group shown; without, the value is cleared
\* and the group hidden.
FileLoaded ==
    /\ \E f \in fileSel.reading :
         LET chapters == ChaptersOf(f)
             previouslySelectedChapter == fileSel.value
         IN fileSel' =
              IF Len(chapters) > 0
                THEN [fileSel EXCEPT !.reading = @ \ {f}, !.cached = f,
                        !.chaptersList = chapters, !.options = chapters,
                        !.value = RestoredValue(previouslySelectedChapter, chapters),
                        !.saved = RestoredValue(previouslySelectedChapter, chapters),
                        !.shown = TRUE, !.status0 = "loaded"]
                ELSE [fileSel EXCEPT !.reading = @ \ {f}, !.cached = f,
                        !.chaptersList = chapters,
                        !.value = "", !.saved = "",
                        !.shown = FALSE, !.status0 = "no-chapters"]
    /\ UNCHANGED <<wfVars, brVars, pgVars, lsVars, lcVars, nbVars, gnVars, teVars, mdVars, wrVars, rtVars, fmVars, upVars, scVars>>

\* The read of a file rejects: an error status, the input is cleared and
\* the group hidden.
FileReadFails ==
    /\ \E f \in fileSel.reading :
         fileSel' = [fileSel EXCEPT !.reading = @ \ {f}, !.input = "",
                                    !.shown = FALSE, !.status0 = "read-error"]
    /\ UNCHANGED <<wfVars, brVars, pgVars, lsVars, lcVars, nbVars, gnVars, teVars, mdVars, wrVars, rtVars, fmVars, upVars, scVars>>

\* The user picks an option of the dropdown (the empty one included), which
\* they can while the group that holds it is shown.
SelectChapter ==
    /\ fileSel.shown
    /\ \E k \in 0..Len(fileSel.options) :
         LET chapter == IF k = 0 THEN "" ELSE fileSel.options[k] IN
           fileSel' = [fileSel EXCEPT !.value = chapter, !.saved = chapter]
    /\ UNCHANGED <<wfVars, brVars, pgVars, lsVars, lcVars, nbVars, gnVars, teVars, mdVars, wrVars, rtVars, fmVars, upVars, scVars>>

\* ------------------------------------------------- Notion page creation
\* createPageInDatabase and addBlocksToPage. A block is known by its place
\* in the list that was given; a request is its method and its children.

\* const chunkSize = 100 (Notion's limit for the children of one request).
chunkSize == 100

MaxBlocks == 250

NoUpload ==
    [phase |-> "idle", blocks |-> << >>, reqs |-> << >>, chunks |-> << >>,
     i |-> 0, returned |-> FALSE, thrown |-> FALSE]

\* Array.prototype.slice(from, to) with 0 <= from <= to.
slice(a, from, to) ==
    SubSeq(a, from + 1, IF to < Len(a) THEN to ELSE Len(a))

\* The blocks that addBlocksToPage is given when the first request took
\* one block too many for the rest to follow on.
RestAfterCreateSkipsOne(bl) == slice(bl, chunkSize + 1, Len(bl))

\* blocks.slice(100): what createPageInDatabase gives to addBlocksToPage.
RestAfterCreate(bl) == slice(bl, 100, Len(bl))

\* for (let i = 0; i < blocks.length; i += chunkSize)
\*     chunks.push(blocks.slice(i, i + chunkSize))
RECURSIVE ChunksFrom(_, _)
ChunksFrom(bl, k) ==
    IF k < Len(bl)
      THEN << slice(bl, k, k + chunkSize) >> \o ChunksFrom(bl, k + chunkSize)
      ELSE << >>

\* createPageInDatabase is called with a list of blocks.
StartCreate ==
    /\ upload.phase = "idle"
    /\ \E K \in 0..MaxBlocks :
         upload' = [NoUpload EXCEPT !.phase = "create", !.blocks = [k \in 1..K |-> k]]
    /\ UNCHANGED <<wfVars, brVars, pgVars, lsVars, lcVars, nbVars, gnVars, teVars, mdVars, wrVars, rtVars, fmVars, scVars, fsVars>>

\* POST /pages with the first chunk as children (no children for no blocks).
\* A response that is not ok throws; with more than 100 blocks the rest goes
\* to addBlocksToPage, which cuts it into chunks; else the page id is returned.
CreatePage ==
    /\ upload.phase = "create"
    /\ \E ok \in BOOLEAN :
         LET bl == upload.blocks
             req == [method |-> "POST",
                     children |-> IF Len(bl) > 0 THEN slice(bl, 0, chunkSize) ELSE << >>]
         IN upload' =
              IF ~ok
                THEN [upload EXCEPT !.reqs = Append(@, req), !.phase = "done", !.thrown = TRUE]
              ELSE IF Len(bl) > 100
                THEN [upload EXCEPT !.reqs = Append(@, req), !.phase = "adding",
                                    !.chunks = ChunksFrom(RestAfterCreate(bl), 0), !.i = 0]
              ELSE [upload EXCEPT !.reqs = Append(@, req), !.phase = "done", !.returned = TRUE]
    /\ UNCHANGED <<wfVars, brVars, pgVars, lsVars, lcVars, nbVars, gnVars, teVars, mdVars, wrVars, rtVars, fmVars, scVars, fsVars>>

\* One turn of the loop of addBlocksToPage: PATCH /blocks/{id}/children with
\* chunk i; a response that is not ok throws; after the last chunk both
\* functions return.
AddBatch ==
    /\ upload.phase = "adding"
    /\ upload.i < Len(upload.chunks)
    /\ \E ok \in BOOLEAN :
         LET req == [method |-> "PATCH", children |-> upload.chunks[upload.i + 1]] IN
           upload' =
              IF ~ok
                THEN [upload EXCEPT !.reqs = Append(@, req), !.phase = "done", !.thrown = TRUE]
              ELSE IF upload.i + 1 < Len(upload.chunks)
                THEN [upload EXCEPT !.reqs = Append(@, req), !.i = @ + 1]
              ELSE [upload EXCEPT !.reqs = Append(@, req), !.i = @ + 1,
                                  !.phase = "done", !.returned = TRUE]
    /\ UNCHANGED <<wfVars, brVars, pgVars, lsVars, lcVars, nbVars, gnVars, teVars, mdVars, wrVars, rtVars, fmVars, scVars, fsVars>>

\* The popup is open and no run was started.
PopupIdle ==
    /\ pc = "idle"
    /\ btnDisabled = FALSE
    /\ runs = 0
    /\ runSel = {}
    /\ toggles = 0
    /\ result = NoResult
    /\ errShown = {}
    /\ status = showStatus("none", "run", "")
    /\ completedList = {}
    /\ aborted = FALSE
    /\ stored = 0
    /\ notionReqs = 0
    /\ cur = "none"
    /\ tab = "none"
    /\ attempts = 0
    /\ chan = "none"
    /\ sends = 0
    /\ pageBusy = {}
    /\ wire = << >>

\* No page action was called and the listener has received nothing.
PageIdle ==
    /\ script = "none"
    /\ sourceName = FALSE
    /\ chapterName = FALSE
    /\ pstep = 0
    /\ performed = << >>
    /\ failed = {}
    /\ thrown = FALSE
    /\ response = << >>
    /\ message = {}
    /\ requests = << >>
    /\ lkMode = "none"
    /\ cands = << >>
    /\ ci = 0
    /\ phase = "idle"
    /\ elapsed = 0
    /\ dom = {}
    /\ found = -1
    /\ observers = 0
    /\ hist = NoHist
    /\ sources = << >>
    /\ artifacts = << >>
    /\ notebooks = << >>
    /\ opened = NoOpen
    /\ job = NoJob
    /\ done = NoDone
    /\ gen = NoGen
    /\ entry = NoEntry
    /\ md = NoMd
    /\ retry = NoRetry
    /\ form = NoForm
    /\ upload = NoUpload
    /\ selection = NoSelection
    /\ fileSel = NoFileSel

\* The popup was opened: loadActionStates restores the ticked checkboxes.
Init ==
    /\ checked \in SUBSET Actions
    /\ activeTab \in {"other", "nblm"}
    /\ PopupIdle
    /\ PageIdle

\* The steps of the popup's own code.
ControllerStep ==
    \/ AtProcess
    \/ ProcessDone
    \/ AtNotion
    \/ NotionDone
    \/ AtQuiz
    \/ AtNblm
    \/ AtFlash
    \/ AtFinal
    \/ CheckReady
    \/ SettleElapsed
    \/ SendRequest
    \/ ResponseCallback

Next ==
    \/ ClickPerform
    \/ ToggleCheckbox
    \/ ControllerStep
    \/ DeliverRequest
    \/ PageResponds
    \/ TabLoads
    \/ TabClosed

Spec == Init /\ [][Next]_vars

\* The popup's own steps are always taken: they are promise continuations and
\* timers of the extension page. The browser's delivery of a request and of a
\* lost channel is guaranteed too; the page's answer, the tab's loading and
\* its closing are not.
NextCore ==
    \/ ClickPerform
    \/ ControllerStep
    \/ DeliverRequest
    \/ PageResponds
    \/ TabLoads
    \/ TabClosed

FairSpec ==
    /\ Init
    /\ [][NextCore]_vars
    /\ WF_vars(ControllerStep)
    /\ WF_vars(DeliverRequest)

\* The popup with its form: clicks, form changes, ticks between runs, and the
\* runs themselves.
TickWhenIdle == pc = "idle" /\ ToggleCheckbox

NextForm ==
    \/ ClickWithForm
    \/ FormChange
    \/ TickWhenIdle
    \/ ControllerStep
    \/ DeliverRequest
    \/ PageResponds
    \/ TabLoads

SpecForm == Init /\ [][NextForm]_vars

\* One page action on its own, from its call to its return.
InitPage ==
    /\ checked = {}
    /\ activeTab = "other"
    /\ PopupIdle
    /\ PageIdle

NextPage ==
    \/ StartScript
    \/ StepOptional
    \/ StepRequired
    \/ StepWait
    \/ StepBestEffort
    \/ OuterCatch
    \/ ReturnSuccess

SpecPage == InitPage /\ [][NextPage]_vars

\* An optional step that has no loop of its own.
StepOptionalPlain ==
    /\ AtStep("optional")
    /\ ~(CurStep.name \in RetrySteps /\ ArgGiven(CurStep.arg))
    /\ StepOptional

\* Whatever a page action that was called does next: timers and promise
\* continuations of the page.
PageProgress ==
    \/ StepOptionalPlain
    \/ StepRequired
    \/ StepWait
    \/ StepBestEffort
    \/ OuterCatch
    \/ ReturnSuccess
    \/ StartRetry
    \/ RetryTick
    \/ RetryEnd

NextTermination ==
    \/ StartScript
    \/ PageProgress

SpecTermination == InitPage /\ [][NextTermination]_vars /\ WF_vars(PageProgress)

\* The content-script listener on its own. A handler's promise always
\* settles: the handlers catch their own errors and wait only on timers.
NextListener ==
    \/ Receive
    \/ HandlerStep

SpecListener ==
    /\ InitPage
    /\ [][NextListener]_vars
    /\ WF_vars(HandlerStep)

\* One lookup of a page action on its own, with the page changing its DOM.
NextLocator ==
    \/ StartLookup
    \/ StartDisappear
    \/ TimerStep
    \/ DomInsert
    \/ DomRemove
    \/ DomAttr

SpecLocator ==
    /\ InitPage
    /\ [][NextLocator]_vars
    /\ WF_vars(TimerStep)

\* The page actions at work on the lists of one NotebookLM notebook.
NextNotebook ==
    \/ UserCreatesNotebook
    \/ OpenNotebook
    \/ ExportStep0
    \/ ExportInsert
    \/ ExportRename
    \/ FlashCreate
    \/ FlashRename

SpecNotebook == InitPage /\ [][NextNotebook]_vars

\* The generation wait of handleCreateFlashcards with NotebookLM showing and
\* taking away its text.
NextGeneration ==
    \/ StartGeneration
    \/ GenStep
    \/ MarkerRemoved
    \/ MarkerShown
    \/ GenAgain

SpecGeneration ==
    /\ InitPage
    /\ [][NextGeneration]_vars
    /\ WF_vars(GenStep)

\* The text-entry steps of the page actions, one at a time.
NextEntry ==
    \/ StartEntry
    \/ EntrySet
    \/ EntryReread

SpecEntry == InitPage /\ [][NextEntry]_vars

NextMarkdown ==
    \/ StartSplit
    \/ SplitLine
    \/ SplitEnd
    \/ StartRewrite
    \/ RewriteSection
    \/ RewriteThrows
    \/ Combine
    \/ StoreProcessed
    \/ StartConvert
    \/ ConvertLine
    \/ ConvertEnd

SpecMarkdown == InitPage /\ [][NextMarkdown]_vars

NextUpload ==
    \/ StartCreate
    \/ CreatePage
    \/ AddBatch

SpecUpload == InitPage /\ [][NextUpload]_vars

NextSelection ==
    \/ StartSelect
    \/ UncheckBox
    \/ CheckTarget

SpecSelection == InitPage /\ [][NextSelection]_vars

NextFileSel ==
    \/ SelectNoFile
    \/ SelectInvalidFile
    \/ SelectFile
    \/ FileLoaded
    \/ FileReadFails
    \/ SelectChapter

SpecFileSel == InitPage /\ [][NextFileSel]_vars

\* ------------------------------------------------------------------ claims

\* The required steps of the running page action that failed.
RequiredFailed == failed \cap RequiredSteps(script)

\* C1: a page action's response has success=false exactly when one of its
\* required steps failed; a failure of an optional step (not found or thrown)
\* never makes it false, a failure of a required step always does, and an
\* action that ended has returned a response.
C1_OptionalNeverFails ==
    /\ response # << >> => (response[1].success = FALSE <=> RequiredFailed # {})
    /\ (script # "none" /\ pstep = 0) => response # << >>
    /\ (RequiredFailed # {} /\ response = << >>) => thrown

C1_Witness ==
    /\ script = "gemini"
    /\ failed = {"selectGeminiModel", "renameGeminiConversation"}
    /\ response = << [success |-> TRUE] >>

\* C2: in handleNotebooklmExport the steps act in their declared order, and
\* when a required element is not found none of the steps declared after the
\* failing one acts (no later click, no text entry, no rename) and the action
\* returns a failure response.
C2_StopsAtFirstRequiredFailure ==
    script = "export" =>
      /\ \A i, j \in 1..Len(performed) :
           i < j => StepIndex(script, performed[i]) < StepIndex(script, performed[j])
      /\ \A f \in RequiredFailed :
           /\ \A i \in 1..Len(performed) :
                StepIndex(script, performed[i]) < StepIndex(script, f)
           /\ pstep = 0 => response = << [success |-> FALSE] >>
           /\ pstep # 0 => (thrown /\ pstep = StepIndex(script, f))
      /\ Cardinality(RequiredFailed) <= 1

C2_Witness ==
    /\ script = "export"
    /\ sourceName
    /\ failed = {"textarea"}
    /\ performed = << "deleteExistingSource", "addSourceButton", "copiedTextChip" >>
    /\ response = << [success |-> FALSE] >>

\* C8: for every request the listener received, sendResponse is called at
\* most once, exactly once when the action is unknown or the handler has
\* settled (resolved or rejected), and every request gets its response.
C8_ExactlyOneResponse ==
    /\ [](\A i \in 1..Len(requests) :
            /\ Len(requests[i].responses) <= 1
            /\ requests[i].handler # "running" => Len(requests[i].responses) = 1)
    /\ \A i \in 1..MaxRequests :
         (Len(requests) >= i) ~> (Len(requests) >= i /\ Len(requests[i].responses) = 1)

C8_Witness ==
    /\ Len(requests) = 3
    /\ requests[1].handler = "resolved"
    /\ requests[2].handler = "rejected"
    /\ requests[3].handler = "none"
    /\ \A i \in 1..3 : Len(requests[i].responses) = 1

\* The action whose controller code is executing, "none" between actions.
Active ==
    CASE pc = "in_process" -> "process"
      [] pc = "in_notion"  -> "notion"
      [] OTHER             -> cur

\* Everything that is in progress: the controller's action and the page
\* scripts still executing.
InProgress == (IF Active = "none" THEN {} ELSE {Active}) \cup pageBusy

Attempted(a) == result[a] # "none" \/ Active = a

\* A run of handlePerformActions has just ended (its own last status is still
\* shown) and no checkbox was changed while it was in progress.
RunEnded ==
    /\ pc = "idle"
    /\ runs > 0
    /\ toggles = 0
    /\ status.by = "run"
    /\ status.text \in {"completed", "exception"}

\* C3: the selected actions are executed in the order Process highlights,
\* Copy to Notion, Create Gemini quiz, Add source to NotebookLM, Generate
\* flashcards; an action is started only when no other action is in progress,
\* no request is outstanding and no page script is still executing; at no time
\* are two actions in progress.
C3_SequentialInOrder ==
    /\ [](Cardinality(InProgress) <= 1)
    /\ [][\A a \in Actions :
            (~Attempted(a) /\ Attempted(a)') =>
               /\ Active = "none"
               /\ pageBusy = {}
               /\ chan = "none"
               /\ \A b \in Actions : Attempted(b) => Rank(b) < Rank(a)]_vars

C3_Witness ==
    /\ result["quiz"] # "none"
    /\ cur = "nblm"
    /\ chan = "running"
    /\ pageBusy = {"nblm"}

\* A failure that the claim C4 is about: of Copy to Notion, Create Gemini quiz
\* or Add source to NotebookLM, or of Process highlights when Copy to Notion
\* is not selected.
IndependentFailure(f) ==
    /\ result[f] = "failed"
    /\ \/ f \in {"notion", "quiz", "nblm"}
       \/ f = "process" /\ "notion" \notin runSel

\* C4: a failure of Copy to Notion, Create Gemini quiz or Add source to
\* NotebookLM (or of Process highlights when Copy to Notion is not selected)
\* does not prevent any later selected action of the run from being attempted.
C4_FailureIsolated ==
    RunEnded =>
      \A f \in Actions : IndependentFailure(f) =>
        \A a \in runSel : Rank(a) > Rank(f) => result[a] # "none"

C4_Witness ==
    /\ RunEnded
    /\ result["notion"] = "failed"
    /\ result["quiz"] = "failed"
    /\ result["nblm"] = "failed"
    /\ result["flash"] = "ok"

\* What the final status of a run says about an action: the status line can
\* name an action as completed or show its error, nothing else.
FinalReport(a) ==
    IF status.text = "completed" /\ a \in completedList THEN "completed"
    ELSE IF status.type = "error" /\ (status.by = a \/ (aborted /\ a = "process"))
      THEN "failed"
    ELSE "none"

C7_ReportTruthful ==
    RunEnded =>
      \A a \in runSel :
        /\ FinalReport(a) = "completed" => result[a] = "ok"
        /\ result[a] = "failed" => FinalReport(a) = "failed"

\* C9: once a request is outstanding, the controller function ends (with a
\* failure if the page never answers), and it never sends a second request.
C9_ResponseTimeout ==
    /\ [](sends <= 1)
    /\ (pc = "awaitResp") ~> (pc # "awaitResp")

\* C10: when the target tab is closed while waitForTabReady is polling or a
\* request is outstanding, the action ends, with an error status and a false
\* result.
C10_ChannelLossSurfaced ==
    /\ [][(cur # "none" /\ tab = "closed" /\ chan \notin {"ok", "fail"} /\ cur' = "none") =>
            /\ result'[cur] = "failed"
            /\ status'.type = "error"
            /\ status'.by = cur]_vars
    /\ (cur # "none" /\ tab = "closed") ~> (cur = "none")

C10_Witness ==
    /\ status = showStatus("error", "nblm", "tab-error")
    /\ result["nblm"] = "failed"
    /\ result["quiz"] = "failed"
    /\ errShown = {"quiz", "nblm"}

\* C11: the action request is sent to a newly created tab only after a
\* readiness handshake: a ping was sent to the tab before it (and answered),
\* or the bounded number of attempts is exhausted.
C11_HandshakeBeforeRequest ==
    [][(pc = "send" /\ pc' = "awaitResp") =>
          (sends >= 1 \/ attempts >= maxAttempts)]_vars

\* C12 as claimed: for a newly opened tab the action request is sent only
\* after the tab was observed complete and the settle delay has elapsed.
C12_OnlyAfterComplete ==
    [][(pc # "send" /\ pc' = "send") => pc = "settle"]_vars

\* C12 as amended: for a newly opened tab the action request is sent only
\* after the tab was observed complete and the settle delay has elapsed, or
\* after maxAttempts polls none of which saw the tab complete; in that case it
\* is sent at once, with no settle delay.
C12_CompleteOrExhausted ==
    [][(pc # "send" /\ pc' = "send") =>
          \/ pc = "settle" /\ tab \in {"complete", "closed"}
          \/ /\ pc = "waitTab"
             /\ tab = "loading"
             /\ attempts' = maxAttempts]_vars

C12_Witness ==
    /\ pc = "send"
    /\ tab = "loading"
    /\ attempts = maxAttempts
    /\ cur = "quiz"

\* The waitForElement call of candidate i of the lookup has resolved.
CallDone(i) ==
    /\ lkMode = "appear"
    /\ i \in 1..Len(cands)
    /\ cands[i].how = "wait"
    /\ i < ci \/ (i = ci /\ phase = "resolved")

\* The waitForElement call of candidate i resolved to null.
CallNull(i) == \E r \in hist.nulls : r.cand = i

\* C13 as stated: a waitForElement call whose selector matched nothing before
\* its timeout had passed resolves to null.
C13_NullUnlessMatchedBeforeTimeout ==
    \A i \in Nodes : (CallDone(i) /\ i \notin hist.early) => CallNull(i)

\* C13: waitForElement never throws or rejects, every call resolves, to an
\* element or to null; a call whose selector matched nothing before its
\* timeout had passed nor during the observer window after it resolves to
\* null; and a call resolves to null only after its timeout and the observer
\* window (at least timeout milliseconds) have passed since the call.
C13_NullAfterTimeoutAndWindow ==
    /\ [](\A i \in Nodes :
            /\ (CallDone(i) /\ i \notin hist.seen) => CallNull(i)
            /\ CallDone(i) => (CallNull(i) \/ (found = i /\ i \in hist.seen)))
    /\ [](lkMode = "appear" =>
            \A r \in hist.nulls :
               /\ r.after >= cands[r.cand].timeout
               /\ r.after >= cands[r.cand].timeout + graceWindow)
    /\ \A i \in Nodes :
         (lkMode = "appear" /\ ci = i /\ phase \in {"polling", "grace"}) ~> CallDone(i)

C13_Witness ==
    /\ lkMode = "appear"
    /\ Len(cands) = 1
    /\ phase = "resolved"
    /\ found = 0
    /\ hist.seen = {}
    /\ \E r \in hist.nulls : r.after = cands[1].timeout + graceWindow

C15_LowestMatchWins ==
    (lkMode = "appear" /\ phase = "resolved" /\ found > 0)
       => \A j \in 1..(found - 1) : j \notin dom

\* C15: the candidates are tried one after another, each by a call of its
\* own with its own timeout; a candidate whose call resolved to null is never
\* evaluated again, and the lookup resolves to the node of the candidate it
\* is waiting on, the lowest one whose call has not resolved to null.
C15_CandidatesInSequence ==
    /\ []((lkMode = "appear" /\ phase = "resolved" /\ found > 0) =>
            /\ found = ci
            /\ found \in dom
            /\ \A j \in 1..(found - 1) : CallNull(j))
    /\ [][(lkMode = "appear" /\ phase \in {"polling", "grace"}) =>
            /\ ci' >= ci
            /\ ci' <= ci + 1]_vars

C15_Witness ==
    /\ lkMode = "appear"
    /\ phase = "resolved"
    /\ found = 2
    /\ 1 \in dom
    /\ CallNull(1)

\* C16: a waitForElement call checks the DOM at once, then at every
\* pollInterval until its timeout has passed; then, once per call, it installs
\* one observer of childList mutations under document.body for one window of
\* graceWindow milliseconds; an element inserted during the window is
\* returned, and otherwise the call resolves to null at the end of the
\* window. No call enters the window twice.
C16_PollThenOneObserverWindow ==
    /\ [](lkMode = "appear" =>
            /\ observers <= 1
            /\ phase = "polling" =>
                 /\ observers = 0
                 /\ elapsed < cands[ci].timeout
                 /\ elapsed % cands[ci].poll = 0
            /\ phase = "grace" =>
                 /\ observers = 1
                 /\ elapsed >= cands[ci].timeout
                 /\ elapsed < cands[ci].timeout + cands[ci].poll)
    /\ [][(lkMode = "appear" /\ phase = "grace") =>
            /\ (ci \notin dom /\ ci \in dom' /\ ci \notin hist'.silent) =>
                   (phase' = "resolved" /\ found' = ci /\ observers' = 1)
            /\ phase' # "grace" =>
                   \/ phase' = "resolved" /\ found' = ci /\ ci' = ci /\ ci \in dom'
                   \/ /\ [cand |-> ci, after |-> elapsed + graceWindow] \in hist'.nulls
                      /\ dom' = dom
                      /\ phase' = "polling" => ci' = ci + 1]_vars

C16_Witness ==
    /\ lkMode = "appear"
    /\ phase = "resolved"
    /\ found = ci
    /\ found > 0
    /\ observers = 1
    /\ ci \in hist.late
    /\ ci \notin hist.early

\* C17: waitForElementToDisappear always resolves: a check that finds the
\* element absent resolves the call at once, and while the element stays the
\* first check at or after the timeout resolves it; nothing else does.
C17_DisappearAlwaysResolves ==
    /\ [](lkMode = "disappear" =>
            /\ phase \in {"polling", "resolved"}
            /\ phase = "polling" => elapsed < cands[1].timeout)
    /\ [][(lkMode = "disappear" /\ phase = "polling" /\ elapsed' # elapsed) =>
            /\ elapsed' = elapsed + disappearPoll
            /\ 1 \notin dom => phase' = "resolved"
            /\ elapsed' >= cands[1].timeout => phase' = "resolved"
            /\ phase' = "resolved" => (1 \notin dom \/ elapsed' >= cands[1].timeout)]_vars
    /\ (lkMode = "disappear" /\ phase = "polling") ~> (lkMode = "disappear" /\ phase = "resolved")

C17_Witness ==
    /\ lkMode = "disappear"
    /\ phase = "resolved"
    /\ 1 \in dom
    /\ hist.gone = {}
    /\ elapsed = cands[1].timeout

\* The sources of the open notebook that are named name.
Named(name) == {k \in 1..Len(sources) : sources[k].name = name}

\* C18: when handleNotebooklmExport has run twice in succession with one
\* source name, every step of every export so far having worked, the source
\* list holds exactly one source of that name.
C18_ExportTwiceLeavesOne ==
    (job.kind = "export" /\ job.step = "done" /\ job.again /\ done.flawless)
       => Cardinality(Named(job.name)) = 1

\* C19: when an item of the list has exactly the requested name, the item
\* chosen (the source to replace, the notebook to open) has that name;
\* a partial match is chosen only when there is no exact one.
C19_ExactMatchPreferred ==
    /\ (job.kind = "export" /\ job.hadExact) => job.matchName = job.name
    /\ (opened # NoOpen /\ opened.hadExact) => opened.title = opened.name

\* C20: the rename after a creation never renames an item that was in the
\* list before the action started.
C20_RenamesCreatedOnly == job.renamed # "old"

\* C21: in handleCreateFlashcards, when the text Generating Flashcards is
\* taken away the next check ends the generation wait, at most one poll
\* interval after the text went and whatever is left of maxWaitTime, and the
\* action returns success true.
C21_EndsWhenMarkerGone ==
    /\ [][(gen.phase \in {"armed", "polling"} /\ ~gen.marker /\ gen'.since # gen.since) =>
            /\ gen'.phase = "resolved"
            /\ gen'.since - gen.goneAt <= pollInterval]_vars
    /\ [](gen.phase = "finished" => gen.success)
    /\ (gen.phase \in {"armed", "polling"} /\ ~gen.marker)
          ~> (gen.phase = "finished" \/ gen.marker)

C21_Witness ==
    /\ gen.phase = "finished"
    /\ gen.success
    /\ ~gen.marker
    /\ gen.goneAt = 2 * pollInterval
    /\ gen.since = 3 * pollInterval

\* C22: waitForFlashcardGeneration always resolves, at the latest maxWaitTime
\* plus one poll interval after its polling started, also when the text
\* Generating Flashcards never goes; handleCreateFlashcards then still
\* returns success true.
C22_GenerationWaitBounded ==
    /\ [](gen.phase # "idle" => gen.since <= maxWaitTime + pollInterval)
    /\ [](gen.phase = "polling" => gen.offset + gen.since < maxWaitTime)
    /\ [](gen.phase = "finished" => gen.success)
    /\ (gen.phase \in {"armed", "polling"}) ~> (gen.phase = "finished")

C22_Witness ==
    /\ gen.phase = "finished"
    /\ gen.success
    /\ gen.marker
    /\ gen.goneAt = 0
    /\ gen.offset + gen.since >= maxWaitTime

\* The operations op of the text-entry step so far.
Did(op) == \E k \in 1..Len(entry.ops) : entry.ops[k] = op

\* C23: every text-entry step, when it is over, has set the value and read it
\* back, and when the value read back was not the text it has entered the
\* text character by character.
C23_RereadThenTypeFallback ==
    entry.phase = "done" =>
       /\ Did("set")
       /\ Did("reread")
       /\ entry.differed => Did("type")

\* The optional steps of a script.
OptionalSteps(s) ==
    {Steps(s)[i].name : i \in {j \in 1..Len(Steps(s)) : Steps(s)[j].kind = "optional"}}

\* C24: the message of a success response names every optional step of the
\* action that failed; no optional failure is dropped from the response.
C24_OptionalFailureInMessage ==
    (pstep = 0 /\ response # << >> /\ response[1].success = TRUE)
       => (failed \cap OptionalSteps(script)) \subseteq message

\* ------------------------------------------------ C25: text of the same run

\* copyToNotion (popup.js 1160-1166) and createGeminiQuiz (1435-1441) take the
\* highlight text from loadProcessedContent(): the run is using the text once
\* copyToNotion has passed its checks, or once createGeminiQuiz has called
\* sendToGeminiChat.
UsesStoredText == pc = "in_notion" \/ cur = "quiz"

\* C25 as claimed: Copy to Notion and Create Gemini quiz only ever use
\* highlight text that Process highlights produced in the same run of
\* handlePerformActions, never text left in storage by an earlier run.
C25_TextOfSameRun == UsesStoredText => stored = runs

\* ------------------------------------------------ C29: the example's sections

\* "## Chapter 1\n\n### Intro\nHello world\n\n"
ExampleText == join(<< ChapterLine, << >>, IntroLine, HelloLine, << >>, << >> >>)

\* C29 as claimed: for the example text the section splitting yields the title
\* "Chapter 1" (or none) and exactly one section, with heading "Intro" and body
\* "Hello world"; no additional empty section is produced.
C29_ExampleOneSection ==
    (md.fn = "split" /\ md.phase = "done" /\ md.text = ExampleText) =>
       /\ md.chapterHeading \in {null, << ChapterLine >>, << substring(ChapterLine, 3) >>}
       /\ md.sections = << [title |-> << substring(IntroLine, 4) >>, content |-> HelloLine] >>

\* ------------------------------------------------ C30: one block per line

IsNonBlank(line) == trim(line) # << >>

\* The non-blank lines of a text, in input order.
NonBlankLines(text) == SelectSeq(split(text), IsNonBlank)

\* The block type that goes with a heading mark at the start of a string.
TypeByPrefix(a) ==
    IF startsWith(a, << "#", "#", " " >>) THEN "heading_2"
    ELSE IF startsWith(a, << "#", "#", "#", " " >>) THEN "heading_3"
    ELSE "paragraph"

ConvertReturned == md.fn = "convert" /\ md.phase = "done"

\* C30 as claimed: convertMarkdownToNotionBlocks never throws and returns
\* exactly one block per non-blank line, in input order: heading_2 for lines
\* starting with "## ", heading_3 for lines starting with "### ", paragraph
\* otherwise; an empty or blank-only text yields the empty list.
C30_BlockPerLineByPrefix ==
    ConvertReturned =>
       LET nb == NonBlankLines(md.text) IN
         /\ ~md.thrown
         /\ Len(md.blocks) = Len(nb)
         /\ \A k \in 1..Len(nb) :
              /\ md.blocks[k].type = TypeByPrefix(nb[k])
              /\ Includes(nb[k], md.blocks[k].content)

\* C30 amended: it never throws and returns exactly one block per non-blank
\* line, in input order; the type goes by the line after its surrounding white
\* space was removed: heading_2 when that starts with "## ", heading_3 when it
\* starts with "### ", paragraph otherwise (an indented heading is a heading,
\* a heading mark with nothing after it is a paragraph).
C30_BlockPerLineByTrimmedPrefix ==
    ConvertReturned =>
       LET nb == NonBlankLines(md.text) IN
         /\ ~md.thrown
         /\ Len(md.blocks) = Len(nb)
         /\ \A k \in 1..Len(nb) :
              /\ md.blocks[k].type = TypeByPrefix(trim(nb[k]))
              /\ Includes(nb[k], md.blocks[k].content)

\* An indented heading, a blank line and a heading mark with nothing after it
\* were converted: a heading_2 and a paragraph.
C30_Witness ==
    /\ ConvertReturned
    /\ md.lines = << << " ", "#", "#", " ", "x" >>, << " " >>, << "#", "#", " " >> >>
    /\ md.blocks = << [type |-> "heading_2", content |-> << "x" >>],
                      [type |-> "paragraph", content |-> << "#", "#" >>] >>

\* ------------------------------------------------ C26: shape of a response

\* C26 as claimed: every response that the content script of the target page
\* delivers carries a boolean success field, for known and for unknown action
\* names alike.
C26_ResponseHasSuccess ==
    \A i \in 1..Len(requests) :
       \A k \in 1..Len(requests[i].responses) :
          requests[i].responses[k].success \in {"true", "false"}

\* ------------------------------------------------ C27: responses in order

\* The callback of a request that was answered is run with the response that
\* was produced for that request.
OwnResponse ==
    \A j \in 1..Len(wire) :
       (wire[j].kind = "handle" /\ wire[j].resp # "lastError") => wire[j].resp = wire[j].req

\* Nothing is produced or handled for a later request to a tab before the
\* callback of an earlier request to that tab was run.
EarlierHandledFirst ==
    \A i \in 1..Len(wire), p \in 1..Len(wire) :
       ( /\ i < p
         /\ wire[i].kind = "send"
         /\ wire[p].kind \in {"respond", "handle"}
         /\ wire[p].req # wire[i].req
         /\ wire[p].to = wire[i].to )
       => \E k \in (i + 1)..(p - 1) : wire[k].kind = "handle" /\ wire[k].req = wire[i].req

\* C27: when request A and then, after A has completed, request B go to the
\* same tab, the response handled for A is A's own and it is handled before
\* B's response; no response produced for B reaches A's callback or comes
\* before A's response.
C27_OwnResponseInOrder == OwnResponse /\ EarlierHandledFirst

\* Add source to NotebookLM and Generate flashcards of one run were both
\* answered by the NotebookLM tab.
C27_Witness ==
    wire = << Sent("nblm"), Answered("nblm"), Handled("nblm", FALSE, << Answered("nblm") >>),
              Sent("flash"), Answered("flash"), Handled("flash", FALSE, << Answered("flash") >>) >>

\* ------------------------------------------------ C28: page actions end

\* C28: a page action that has started always ends with a response, success
\* or failure, and every retry loop inside it ends within its own attempt
\* limit or timeout.
C28_PageActionTerminates ==
    /\ [](retry.phase # "none" =>
            /\ retry.attempts <= IF retry.loop = "attempts" THEN maxMoreAttempts
                                  ELSE renameMaxWaitTime \div renamePollInterval
            /\ retry.elapsed <= LoopLimit(retry.loop))
    /\ [](pstep = 0 /\ script # "none" =>
            /\ Len(response) = 1
            /\ response[1].success \in BOOLEAN)
    /\ (retry.phase = "looping") ~> (retry.phase = "done")
    /\ (pstep # 0) ~> (pstep = 0 /\ Len(response) = 1)

\* handleSendToGeminiChat has answered after the loop of its rename step ran
\* until the time was up without finding the More button.
C28_Witness ==
    /\ pstep = 0
    /\ script = "gemini"
    /\ Len(response) = 1
    /\ response[1].success = TRUE
    /\ "renameGeminiConversation" \in failed
    /\ retry.phase = "done"
    /\ ~retry.button
    /\ retry.elapsed = renameMaxWaitTime

\* ------------------------------------------------ C31: one run at a time

\* C31: at most one run of handlePerformActions is in progress: the Perform
\* Actions button is disabled exactly while a run is in progress, no run starts
\* while it is disabled, and every way a run ends (the final status, an action
\* that threw, the abort after a dependency failure) enables it again.
C31_ButtonDisabledWhileRunning ==
    /\ [](btnDisabled <=> pc # "idle")
    /\ [][runs' # runs => (~btnDisabled /\ pc = "idle" /\ btnDisabled')]_vars
    /\ [][(pc # "idle" /\ pc' = "idle") => ~btnDisabled']_vars

\* A run was aborted by the failure of Process highlights with Copy to Notion
\* ticked, and the button is enabled again.
C31_Witness ==
    /\ runs >= 1
    /\ aborted
    /\ result["process"] = "failed"
    /\ pc = "idle"
    /\ ~btnDisabled

\* ------------------------------------------------ C32: the run's selection

\* C32 as claimed: the actions attempted in a run, and the actions named in
\* its final status, are exactly the actions that were ticked when the run
\* was triggered; a checkbox changed while the run is in progress neither
\* adds an action to the run nor removes one.
C32_SelectionFixedAtTrigger ==
    /\ \A a \in Actions : Attempted(a) => a \in runSel
    /\ (pc = "idle" /\ runs > 0 /\ ~aborted) =>
          /\ {a \in Actions : result[a] # "none"} = runSel
          /\ completedList = runSel

\* ------------------------------------------------ C33: preconditions

\* The preconditions of a run, on the form as it is.
PreconditionsHold ==
    /\ checked # {}
    /\ form.chapter
    /\ (checked \cap {"nblm", "flash"} # {}) => form.notebook

\* C33: handlePerformActions starts no action, opens no tab and leaves the
\* Perform Actions button enabled unless at least one action is ticked, a
\* chapter is selected and, with Add source to NotebookLM or Generate
\* flashcards ticked, a notebook name is available.
C33_NothingWithoutPreconditions ==
    /\ [][(pc = "idle" /\ pc' # "idle") => PreconditionsHold]_vars
    /\ [][(pc = "idle" /\ ~PreconditionsHold) =>
             /\ pc' = "idle"
             /\ ~btnDisabled'
             /\ runs' = runs
             /\ result' = result
             /\ tab' = "none"
             /\ activeTab' = activeTab
             /\ sends' = sends
             /\ notionReqs' = notionReqs
             /\ wire' = wire]_vars

\* A click was turned down for the missing notebook name alone.
C33_Witness ==
    /\ status = showStatus("error", "run", "select-notebook")
    /\ "flash" \in checked
    /\ form = [chapter |-> TRUE, notebook |-> FALSE]
    /\ pc = "idle"
    /\ ~btnDisabled
    /\ runs = 0

\* The indices of the sections that have content, in order.
RECURSIVE WithContentFrom(_, _)
WithContentFrom(secs, k) ==
    IF k > Len(secs) THEN << >>
    ELSE (IF secs[k].content # << >> THEN << k >> ELSE << >>) \o WithContentFrom(secs, k + 1)

RewriteOver == md.fn = "split" /\ md.phase \in {"returned", "stored"}

\* C34: a failure of the Gemini rewrite never makes "Process highlights"
\* fail. When the whole call failed, the extracted highlights are stored
\* unchanged; when the rewrite of one section failed, that section is in the
\* output with its own text under its title, and every other section with
\* content is there too, with the text the rewrite gave.
C34_RewriteFailureFallsBack ==
    /\ (md.fn = "split" /\ (md.callFailed \/ md.failedSections # {})) => ~md.thrown
    /\ (md.fn = "split" /\ md.phase = "stored") =>
          /\ md.stored # null
          /\ md.callFailed => md.stored = << md.text >>
          /\ ~md.callFailed => md.stored = << md.result >>
    /\ (RewriteOver /\ ~md.callFailed) =>
          LET idx == WithContentFrom(md.sections, 1) IN
            /\ Len(md.processed) = Len(idx)
            /\ \A k \in 1..Len(idx) :
                 LET sec == md.sections[idx[k]] IN
                   /\ md.processed[k].title = sec.title
                   /\ idx[k] \in md.failedSections =>
                        /\ md.processed[k].content = sec.content
                        /\ Includes(md.result, sec.content)
                   /\ idx[k] \notin md.failedSections =>
                        md.processed[k].content \in {Rewritten(sec.content), << >>}

C34_Witness ==
    /\ md.fn = "split"
    /\ md.phase = "stored"
    /\ ~md.callFailed
    /\ Len(md.processed) >= 2
    /\ \E k \in 1..Len(md.sections) : k \in md.failedSections
    /\ \E k \in 1..Len(md.processed) :
          md.processed[k].content # << >> /\ md.processed[k].content[1] = "*"
    /\ md.stored = << md.result >>

\* The titles of the "###" lines of a text, in order.
RECURSIVE HeadingTitles(_)
HeadingTitles(lines) ==
    IF Len(lines) = 0 THEN << >>
    ELSE (IF IsSectionHeading(trim(lines[1])) THEN << SectionTitle(trim(lines[1])) >> ELSE << >>)
         \o HeadingTitles(Tail(lines))

\* C35: the output of processHighlightsWithGemini has every "###" heading
\* of its input, in input order, those of sections with an empty body
\* included.
C35_EveryHeadingInOutput ==
    (RewriteOver /\ ~md.callFailed) =>
        HeadingTitles(split(md.result)) = HeadingTitles(split(md.text))

\* The children of the requests made so far, one after another.
RECURSIVE SentBlocks(_)
SentBlocks(reqs) ==
    IF Len(reqs) = 0 THEN << >> ELSE reqs[1].children \o SentBlocks(Tail(reqs))

\* C36: of the K blocks a page is created from, no request carries more
\* than 100; the page-creation request carries the first min(K, 100) and the
\* following requests the rest in consecutive chunks; what has been sent is
\* at every moment the beginning of the list (each block once, in order), and
\* all of it when the page id is returned.
C36_BlocksOnceInOrder ==
    LET bl == upload.blocks
        K == Len(bl)
        reqs == upload.reqs
        sent == SentBlocks(reqs)
    IN /\ \A r \in 1..Len(reqs) : Len(reqs[r].children) <= 100
       /\ Len(sent) <= K /\ sent = SubSeq(bl, 1, Len(sent))
       /\ Len(reqs) >= 1 =>
             /\ reqs[1].method = "POST"
             /\ reqs[1].children = SubSeq(bl, 1, IF K < 100 THEN K ELSE 100)
       /\ \A r \in 2..Len(reqs) :
             /\ reqs[r].method = "PATCH"
             /\ reqs[r].children # << >>
             /\ r < Len(reqs) => Len(reqs[r].children) = 100
       /\ upload.returned => sent = bl

C36_Witness ==
    /\ upload.returned
    /\ Len(upload.blocks) = 250
    /\ Len(upload.reqs) = 3
    /\ Len(upload.reqs[3].children) = 50

CheckedBoxes == {k \in 1..Len(selection.boxes) : selection.boxes[k].checked}

\* C37: after the source-selection step has run with a source name on a
\* notebook with at least one source checkbox, exactly one checkbox is
\* checked, and it is one of the named source whenever there is a checkbox
\* of that name.
C37_OnlyNamedSourceChecked ==
    (selection.phase = "done" /\ Len(selection.boxes) >= 1) =>
        /\ Cardinality(CheckedBoxes) = 1
        /\ (\E k \in 1..Len(selection.boxes) : selection.boxes[k].title = selection.name)
              => \A k \in CheckedBoxes : selection.boxes[k].title = selection.name

FlashRequestSent == \E k \in 1..Len(wire) : wire[k] = Sent("flash")

\* C38: createFlashcards sends its request only when the active tab is a
\* NotebookLM page; when the active tab is another page it sends nothing,
\* shows an error status and returns false.
C38_FlashOnlyToNotebookLM ==
    /\ [][(Len(wire') > Len(wire) /\ wire'[Len(wire')] = Sent("flash"))
             => activeTab = "nblm"]_vars
    /\ [][(cur # "flash" /\ cur' = "flash") => activeTab = "nblm"]_vars
    /\ [][(pc = "p_flash" /\ pc' # pc /\ "flash" \in checked /\ activeTab # "nblm") =>
             /\ wire' = wire
             /\ sends' = sends
             /\ chan' = chan
             /\ cur' = "none"
             /\ status' = showStatus("error", "flash", "navigate-first")
             /\ result'["flash"] = "failed"]_vars

C38_Witness ==
    /\ activeTab # "nblm"
    /\ result["flash"] = "failed"
    /\ status = showStatus("error", "flash", "navigate-first")
    /\ ~FlashRequestSent
    /\ sends = 0

\* C39: whatever files and chapters were selected, the selected chapter is
\* empty or a chapter of the file that is cached now (and the list of
\* chapters kept is that file's).
C39_ChapterOfCachedFile ==
    /\ fileSel.value = "" \/ includes(ChaptersOf(fileSel.cached), fileSel.value)
    /\ fileSel.chaptersList = ChaptersOf(fileSel.cached)

C39_Witness ==
    /\ fileSel.cached = "bookB"
    /\ fileSel.value = "two"
    /\ fileSel.input = ""
    /\ fileSel.status0 = "read-error"
    /\ ~fileSel.shown

\* C40: the generation wait is not over, and the rename step does not run,
\* before the text Generating Flashcards has appeared and gone again,
\* unless the maximum wait was reached.
C40_WaitsForGenerationToBegin ==
    [][(gen.phase \in {"armed", "polling"} /\ gen'.phase = "resolved") =>
          \/ gen.seen /\ ~gen.marker
          \/ gen'.offset + gen'.since >= maxWaitTime]_vars
====
